---- MODULE Spec2Model ----
(***************************************************************************)
(* FraudGuard front end (src/frontend/script.js): CSV parsing, risk        *)
(* scoring, classification and the analysis pipeline with its hand-off to  *)
(* localStorage.  JavaScript strings are TLA+ strings; their characters    *)
(* are read with Len / SubSeq / \o.                                        *)
(***************************************************************************)
EXTENDS FiniteSets, Integers, Sequences, TLC

VARIABLES
    page,              \* which document is loaded: "upload" or "results"
    tz,                \* the browser's time-zone offset in minutes (fixed)
    uploadedFile,      \* script.js:11
    csvData,           \* script.js:12
    analysisResults,   \* script.js:13
    analyzeBtnDisabled,\* #analyzeBtn.disabled
    cardHidden,        \* .card has d-none and #progressSection is shown
    progress,          \* #progressBar, #progressText, #processedCount, #totalCount
    runs,              \* the activations of analyzeTransactions/performAnalysis
    localStorage,      \* the keys fraudGuard_results / fraudGuard_timestamp
    pendingNav,        \* a navigation that was requested: "none" or the page
    lastAlert,         \* text of the alert() of the latest event, "" if none
    clock,             \* new Date(): the number of times it was read
    started,           \* activations begun so far (bounds the model)
    window,            \* window.analysisResults and window.analysisTimestamp
    currentFilter,     \* script.js:14
    searchBox,         \* #searchBox.value
    dom,               \* the results document: header, cards, alert, rows
    modal,             \* #transactionModal and its fields
    download,          \* the file the latest event handed to the browser
    threw,             \* the uncaught exception of the latest event, "" if none
    darkMode,          \* the key darkMode of localStorage
    theme,             \* the dark-mode class of <html> and <body>, the button's icon
    fop, fin, fout     \* a pure function under test: name, input, output

vars == <<page, tz, uploadedFile, csvData, analysisResults, analyzeBtnDisabled,
          cardHidden, progress, runs, localStorage, pendingNav, lastAlert, clock, started,
          window, currentFilter, searchBox, dom, modal, download, threw,
          darkMode, theme, fop, fin, fout>>

appVars == <<page, uploadedFile, csvData, analysisResults, analyzeBtnDisabled,
             cardHidden, progress, runs, localStorage, pendingNav, lastAlert, clock,
             started>>

pureVars == <<fop, fin, fout>>

darkVars == <<darkMode, theme>>

viewVars == <<window, currentFilter, searchBox, dom, modal, download, threw,
              darkMode, theme>>

-----------------------------------------------------------------------------
(* Bounds *)

MaxLines == 3      \* data lines after the header in a generated CSV text
MaxRuns == 2       \* activations of analyzeTransactions in a behaviour
JitterDen == 2     \* the jitter ranges over k/JitterDen where one row is scored
RandDen == 2       \* Math.random() is k/RandDen in an iteration of a run

-----------------------------------------------------------------------------
(* String primitives of the JavaScript runtime *)

CharAt(s, i) == SubSeq(s, i, i)

WhiteSpace == {" ", "\t", "\r", "\n"}

Digits == {"0", "1", "2", "3", "4", "5", "6", "7", "8", "9"}

DigitVal(c) ==
    CASE c = "0" -> 0 [] c = "1" -> 1 [] c = "2" -> 2 [] c = "3" -> 3
      [] c = "4" -> 4 [] c = "5" -> 5 [] c = "6" -> 6 [] c = "7" -> 7
      [] c = "8" -> 8 [] c = "9" -> 9

RECURSIVE trimStart(_)
trimStart(s) ==
    IF Len(s) > 0 /\ CharAt(s, 1) \in WhiteSpace
    THEN trimStart(SubSeq(s, 2, Len(s)))
    ELSE s

RECURSIVE trimEnd(_)
trimEnd(s) ==
    IF Len(s) > 0 /\ CharAt(s, Len(s)) \in WhiteSpace
    THEN trimEnd(SubSeq(s, 1, Len(s) - 1))
    ELSE s

trim(s) == trimEnd(trimStart(s))

\* String.prototype.indexOf for one character, 1-based, 0 when absent
indexOf(s, c, from) ==
    LET hits == { i \in from..Len(s) : CharAt(s, i) = c }
    IN IF hits = {} THEN 0 ELSE CHOOSE i \in hits : \A k \in hits : i <= k

\* String.prototype.split with a one-character separator: always at least
\* one piece, "" split gives <<"">>.
RECURSIVE split(_, _)
split(s, sep) ==
    LET p == indexOf(s, sep, 1)
    IN IF p = 0 THEN <<s>>
       ELSE <<SubSeq(s, 1, p - 1)>> \o split(SubSeq(s, p + 1, Len(s)), sep)

includes(s, sub) ==
    \E i \in 1..(Len(s) - Len(sub) + 1) : SubSeq(s, i, i + Len(sub) - 1) = sub

endsWith(s, suf) ==
    Len(s) >= Len(suf) /\ SubSeq(s, Len(s) - Len(suf) + 1, Len(s)) = suf

startsWith(s, pre) ==
    Len(s) >= Len(pre) /\ SubSeq(s, 1, Len(pre)) = pre

mapTrim(seq) == [k \in 1..Len(seq) |-> trim(seq[k])]

-----------------------------------------------------------------------------
(* parseCSV, script.js:25-44 *)

\* A plain object is the sequence of its own properties in insertion order,
\* each a key k with a value v.
EmptyRow == <<>>

rowKeys(row) == { row[n].k : n \in 1..Len(row) }

hasField(row, name) == name \in rowKeys(row)

rowGet(row, name) == row[CHOOSE n \in 1..Len(row) : row[n].k = name].v

\* row[header] = value: an existing property keeps its place
RowAssign(row, header, value) ==
    IF hasField(row, header)
    THEN [n \in 1..Len(row) |->
            IF row[n].k = header THEN [k |-> header, v |-> value] ELSE row[n]]
    ELSE Append(row, [k |-> header, v |-> value])

\* values[index] || ''
ValueOr(values, index) ==
    IF index <= Len(values) /\ values[index] # "" THEN values[index] ELSE ""

\* a faulty zip that reads the values one position too far
RECURSIVE forEachHeaderShifted(_, _, _, _)
forEachHeaderShifted(headers, values, index, row) ==
    IF index > Len(headers) THEN row
    ELSE forEachHeaderShifted(headers, values, index + 1,
                       RowAssign(row, headers[index], ValueOr(values, index + 1)))

\* headers.forEach((header, index) => { row[header] = values[index] || '' })
RECURSIVE forEachHeader(_, _, _, _)
forEachHeader(headers, values, index, row) ==
    IF index > Len(headers) THEN row
    ELSE forEachHeader(headers, values, index + 1,
                       RowAssign(row, headers[index], ValueOr(values, index)))

\* a faulty loop that keeps blank lines as rows
RECURSIVE parseLinesKeepBlank(_, _, _, _)
parseLinesKeepBlank(lines, headers, i, data) ==
    IF i > Len(lines) THEN data
    ELSE parseLinesKeepBlank(lines, headers, i + 1,
             Append(data, forEachHeader(headers, mapTrim(split(lines[i], ",")),
                                        1, EmptyRow)))

\* the loop for (let i = 1; i < lines.length; i++), i counted from 2 here
RECURSIVE parseLines(_, _, _, _)
parseLines(lines, headers, i, data) ==
    IF i > Len(lines) THEN data
    ELSE IF trim(lines[i]) = ""
         THEN parseLines(lines, headers, i + 1, data)
         ELSE parseLines(lines, headers, i + 1,
                  Append(data, forEachHeader(headers, mapTrim(split(lines[i], ",")),
                                             1, EmptyRow)))

parseCSV(content) ==
    LET lines == split(trim(content), "\n")
        headers == mapTrim(split(lines[1], ","))
    IN parseLines(lines, headers, 2, <<>>)

-----------------------------------------------------------------------------
(* parseFloat, as called at script.js:112.  A number is kept exactly: its   *)
(* digits as a natural mant and a decimal scale, value (-1)^neg * mant *    *)
(* 10^scale.  The texts of this model are short enough for the conversion   *)
(* to a double to keep their order against the thresholds 10..5000.         *)

NaN == [kind |-> "nan", neg |-> FALSE, mant |-> 0, scale |-> 0]

Zero == [kind |-> "num", neg |-> FALSE, mant |-> 0, scale |-> 0]

\* how many decimal digits s has from position from on
digitsLen(s, from) ==
    IF \E k \in from..Len(s) : CharAt(s, k) \notin Digits
    THEN (CHOOSE k \in from..Len(s) :
             /\ CharAt(s, k) \notin Digits
             /\ \A m \in from..(k - 1) : CharAt(s, m) \in Digits) - from
    ELSE IF from > Len(s) THEN 0 ELSE Len(s) - from + 1

RECURSIVE toNat(_)
toNat(ds) ==
    IF Len(ds) = 0 THEN 0
    ELSE 10 * toNat(SubSeq(ds, 1, Len(ds) - 1)) + DigitVal(CharAt(ds, Len(ds)))

charIs(s, i, cs) == i >= 1 /\ i <= Len(s) /\ CharAt(s, i) \in cs

signLen(s, i) == IF charIs(s, i, {"+", "-"}) THEN 1 ELSE 0

\* the value of the n exponent digits of u that start at from
exponentValue(u, from, n, negative) ==
    IF n = 0 THEN 0
    ELSE IF negative THEN 0 - toNat(SubSeq(u, from, from + n - 1))
    ELSE toNat(SubSeq(u, from, from + n - 1))

\* the ExponentPart of u at position p, 0 when there is none
exponentAt(u, p) ==
    IF ~charIs(u, p, {"e", "E"}) THEN 0
    ELSE exponentValue(u, p + 1 + signLen(u, p + 1),
                       digitsLen(u, p + 1 + signLen(u, p + 1)),
                       charIs(u, p + 1, {"-"}))

\* u starts with nInt digits and, when hasDot, a dot and nFrac digits
decimalOf(u, neg, nInt, hasDot, nFrac) ==
    IF nInt = 0 /\ nFrac = 0
    THEN NaN
    ELSE [kind |-> "num", neg |-> neg,
          mant |-> toNat(SubSeq(u, 1, nInt) \o
                         (IF hasDot THEN SubSeq(u, nInt + 2, nInt + 1 + nFrac) ELSE "")),
          scale |-> exponentAt(u, nInt + (IF hasDot THEN 1 + nFrac ELSE 0) + 1) - nFrac]

fractionOf(u, neg, nInt, hasDot) ==
    decimalOf(u, neg, nInt, hasDot, IF hasDot THEN digitsLen(u, nInt + 2) ELSE 0)

\* the text u after the sign
unsignedOf(u, neg) ==
    IF startsWith(u, "Infinity")
    THEN [kind |-> "inf", neg |-> neg, mant |-> 0, scale |-> 0]
    ELSE fractionOf(u, neg, digitsLen(u, 1), charIs(u, digitsLen(u, 1) + 1, {"."}))

signedOf(s) == unsignedOf(SubSeq(s, signLen(s, 1) + 1, Len(s)), charIs(s, 1, {"-"}))

\* parseFloat: the longest prefix of the trimmed text that is a
\* StrDecimalLiteral, as the value (-1)^neg * mant * 10^scale
parseFloat(str) == signedOf(trimStart(str))

\* x || 0 for a number x: NaN, 0 and -0 are falsy
OrZero(x) == IF x.kind = "nan" \/ (x.kind = "num" /\ x.mant = 0) THEN Zero ELSE x

min(a, b) == IF a < b THEN a ELSE b

RECURSIVE pow10(_)
pow10(k) == IF k = 0 THEN 1 ELSE 10 * pow10(k - 1)

\* mant * 10^scale > t and < t, for a natural t <= 5000, without leaving 32
\* bits (mant and 10^scale are both at most t where they are multiplied)
magGreater(mant, scale, t) ==
    IF scale >= 0
    THEN IF mant = 0 THEN FALSE
         ELSE IF mant > t \/ pow10(min(scale, 9)) > t THEN TRUE
         ELSE mant * pow10(scale) > t
    ELSE IF 0 - scale > 9 THEN FALSE
         ELSE LET d == pow10(0 - scale)
              IN (mant \div d) > t \/ ((mant \div d) = t /\ (mant % d) > 0)

magLess(mant, scale, t) ==
    IF scale >= 0
    THEN IF mant = 0 THEN t > 0
         ELSE IF mant >= t \/ pow10(min(scale, 9)) >= t THEN FALSE
         ELSE mant * pow10(scale) < t
    ELSE IF 0 - scale > 9 THEN t > 0
         ELSE (mant \div pow10(0 - scale)) < t

\* x > t and x < t for a number x that is not NaN and a natural t >= 1
greaterThan(x, t) ==
    IF x.kind = "inf" THEN ~x.neg
    ELSE ~x.neg /\ magGreater(x.mant, x.scale, t)

lessThan(x, t) ==
    IF x.kind = "inf" THEN x.neg
    ELSE x.neg \/ magLess(x.mant, x.scale, t)

-----------------------------------------------------------------------------
(* new Date(text).getHours(), as called at script.js:130-131.  Date.parse   *)
(* is modelled on the ECMAScript date-time string format (YYYY-MM-DD and    *)
(* YYYY-MM-DDTHH:mm[:ss[.sss]][Z|+HH:mm|-HH:mm]); every other text is an    *)
(* Invalid Date, which holds for the texts without digits used here.        *)

InvalidDate == [valid |-> FALSE, minutes |-> 0]

allDigits(s, a, b) == \A i \in a..b : charIs(s, i, Digits)

num2(s, a) == 10 * DigitVal(CharAt(s, a)) + DigitVal(CharAt(s, a + 1))

isLeap(y) == (y % 4 = 0 /\ y % 100 # 0) \/ y % 400 = 0

daysIn(y, m) ==
    IF m = 2 THEN (IF isLeap(y) THEN 29 ELSE 28)
    ELSE IF m \in {4, 6, 9, 11} THEN 30 ELSE 31

validDatePart(s) ==
    /\ Len(s) >= 10
    /\ allDigits(s, 1, 4) /\ CharAt(s, 5) = "-"
    /\ allDigits(s, 6, 7) /\ CharAt(s, 8) = "-"
    /\ allDigits(s, 9, 10)
    /\ num2(s, 6) \in 1..12
    /\ num2(s, 9) >= 1
    /\ num2(s, 9) <= daysIn(100 * num2(s, 1) + num2(s, 3), num2(s, 6))

\* the zone designator z of a date-time: minutes to ADD to the written time
\* to get UTC; "local" when there is none
zoneOf(z, tzv) ==
    IF z = "" THEN [ok |-> TRUE, add |-> 0 - tzv]
    ELSE IF z = "Z" THEN [ok |-> TRUE, add |-> 0]
    ELSE IF /\ Len(z) = 6 /\ charIs(z, 1, {"+", "-"}) /\ allDigits(z, 2, 3)
            /\ CharAt(z, 4) = ":" /\ allDigits(z, 5, 6)
            /\ num2(z, 2) <= 23 /\ num2(z, 5) <= 59
         THEN [ok |-> TRUE,
               add |-> IF CharAt(z, 1) = "+"
                       THEN 0 - (60 * num2(z, 2) + num2(z, 5))
                       ELSE 60 * num2(z, 2) + num2(z, 5)]
         ELSE [ok |-> FALSE, add |-> 0]

\* the seconds ":ss" at 17..19, and the position after the milliseconds
hasSeconds(s) ==
    charIs(s, 17, {":"}) /\ allDigits(s, 18, 19) /\ Len(s) >= 19 /\ num2(s, 18) <= 59

afterMs(s, afterSec) ==
    IF afterSec = 20 /\ charIs(s, afterSec, {"."}) /\ allDigits(s, afterSec + 1, afterSec + 3)
    THEN afterSec + 4 ELSE afterSec

timeOfDay(s, zone) ==
    IF ~zone.ok THEN InvalidDate
    ELSE [valid |-> TRUE,
          minutes |-> (60 * num2(s, 12) + num2(s, 15) + zone.add) % 1440]

\* the time value of the text, reduced to minutes of the UTC day
dateParse(s, tzv) ==
    IF ~validDatePart(s) THEN InvalidDate
    ELSE IF Len(s) = 10 THEN [valid |-> TRUE, minutes |-> 0]
    ELSE IF ~(/\ Len(s) >= 16 /\ CharAt(s, 11) = "T" /\ allDigits(s, 12, 13)
              /\ CharAt(s, 14) = ":" /\ allDigits(s, 15, 16)
              /\ num2(s, 12) <= 23 /\ num2(s, 15) <= 59)
         THEN InvalidDate
    ELSE timeOfDay(s, zoneOf(SubSeq(s, afterMs(s, IF hasSeconds(s) THEN 20 ELSE 17),
                                    Len(s)), tzv))

\* Date.prototype.getHours: the hour in the browser's zone; NaN is -1 here
getHours(d, tzv) ==
    IF ~d.valid THEN 0 - 1 ELSE ((d.minutes + tzv) % 1440) \div 60

-----------------------------------------------------------------------------
(* calculateRiskScore, script.js:110-138 *)

\* parseFloat(transaction.amount) || 0
amountOf(transaction) ==
    OrZero(parseFloat(IF hasField(transaction, "amount")
                      THEN rowGet(transaction, "amount") ELSE "undefined"))

\* script.js:115-118
amountRisk(amount) ==
    IF greaterThan(amount, 5000) THEN 30
    ELSE IF greaterThan(amount, 2000) THEN 20
    ELSE IF greaterThan(amount, 1000) THEN 10
    ELSE IF lessThan(amount, 10) THEN 15
    ELSE 0

highRiskLocations == <<"Nigeria", "Russia", "Ukraine", "Unknown">>

\* a location test that adds 25 for every name found
locationRiskPerName(transaction) ==
    IF ~hasField(transaction, "location") THEN 0
    ELSE 25 * Cardinality({ k \in 1..Len(highRiskLocations) :
                            includes(rowGet(transaction, "location"), highRiskLocations[k]) })

\* script.js:124-127: highRiskLocations.some(loc => location?.includes(loc))
locationRisk(transaction) ==
    IF /\ hasField(transaction, "location")
       /\ \E k \in 1..Len(highRiskLocations) :
              includes(rowGet(transaction, "location"), highRiskLocations[k])
    THEN 25 ELSE 0

\* script.js:130-131
hourOf(transaction, tzv) ==
    IF hasField(transaction, "timestamp")
    THEN getHours(dateParse(rowGet(transaction, "timestamp"), tzv), tzv)
    ELSE 0 - 1

\* script.js:132-134
hourRisk(hour) == IF hour >= 1 /\ hour <= 5 THEN 15 ELSE 0

\* a time test that stops before 5 AM
timeRiskBeforeFive(transaction, tzv) ==
    hourRisk(hourOf(transaction, tzv) + (IF hourOf(transaction, tzv) >= 1 THEN 1 ELSE 0))

timeRisk(transaction, tzv) == hourRisk(hourOf(transaction, tzv))

\* Math.round of num/den: the nearest integer, halves towards +infinity
mathRound(num, den) == (2 * num + den) \div (2 * den)

\* a scorer that forgets the cap
calculateRiskScoreNoCap(transaction, jnum, jden, tzv) ==
    mathRound((amountRisk(amountOf(transaction)) + locationRisk(transaction)
               + timeRisk(transaction, tzv)) * jden + jnum, jden)

\* the jitter Math.random() * 40 is jnum/jden with 0 <= jnum < 40 * jden
calculateRiskScore(transaction, jnum, jden, tzv) ==
    LET score1 == amountRisk(amountOf(transaction)) * jden
        score2 == score1 + jnum
        score3 == score2 + locationRisk(transaction) * jden
        score4 == score3 + timeRisk(transaction, tzv) * jden
    IN min(mathRound(score4, jden), 100)

\* a classifier whose fraud threshold is off by one
determineFraudStatusAbove(riskScore) ==
    IF riskScore > 70 THEN "fraud"
    ELSE IF riskScore >= 50 THEN "warning"
    ELSE "legitimate"

\* script.js:145-149
determineFraudStatus(riskScore) ==
    IF riskScore >= 70 THEN "fraud"
    ELSE IF riskScore >= 50 THEN "warning"
    ELSE "legitimate"

\* script.js:156-160
getRiskLevel(riskScore) ==
    IF riskScore >= 70 THEN "High"
    ELSE IF riskScore >= 50 THEN "Medium"
    ELSE "Low"

-----------------------------------------------------------------------------
(* generateFraudIndicators, script.js:78-102.  draws[1] is the numerator of *)
(* the Math.random() that sets the count, draws[2..5] of those that pick.   *)

indicatorCatalog ==
    << "Unusual transaction amount",
       "Suspicious merchant category",
       "Transaction from high-risk location",
       "Unusual time of transaction",
       "Multiple transactions in short period",
       "Card used in multiple locations",
       "Velocity check failed",
       "Amount exceeds normal spending pattern" >>

\* a splice that removes nothing
removeNothing(seq, index) == seq

\* available.splice(index, 1), index counted from 1
removeAt(seq, index) ==
    SubSeq(seq, 1, index - 1) \o SubSeq(seq, index + 1, Len(seq))

\* Math.floor(Math.random() * n) for Math.random() = num/den
randomIndex(num, den, n) == (num * n) \div den

\* the loop of script.js:93-99; draws[d]/den is the d-th Math.random()
RECURSIVE pickIndicators(_, _, _, _, _, _)
pickIndicators(available, selected, count, draws, den, d) ==
    IF count = 0 THEN selected
    ELSE LET index == randomIndex(draws[d], den, Len(available)) + 1
         IN pickIndicators(removeAt(available, index),
                           Append(selected, available[index]),
                           count - 1, draws, den, d + 1)

generateFraudIndicators(draws, den) ==
    pickIndicators(indicatorCatalog, <<>>, randomIndex(draws[1], den, 3) + 2,
                   draws, den, 2)

-----------------------------------------------------------------------------
(* The record pushed for one row, script.js:405-415.  The object            *)
(* {...transaction, riskScore, status, indicators, riskLevel} is kept as    *)
(* the row and the four computed properties; a column of the same name is   *)
(* shadowed by the computed property.                                       *)

computedKeys == <<"riskScore", "status", "indicators", "riskLevel">>

\* script.js:406-415, once riskScore is known
recordWith(transaction, riskScore, levelScore, draws, dden) ==
    [row |-> transaction,
     riskScore |-> riskScore,
     status |-> determineFraudStatus(riskScore),
     indicators |-> IF determineFraudStatus(riskScore) = "fraud"
                    THEN generateFraudIndicators(draws, dden) ELSE <<>>,
     riskLevel |-> getRiskLevel(levelScore)]

\* the level is taken from the same riskScore as the status
sameScore(transaction, riskScore, draws, dden) ==
    recordWith(transaction, riskScore, riskScore, draws, dden)

\* a pipeline that labels the level from a score ten points lower
staleScore(transaction, riskScore, draws, dden) ==
    recordWith(transaction, riskScore, riskScore - 10, draws, dden)

enrichStaleLevel(transaction, jnum, jden, tzv, draws, dden) ==
    staleScore(transaction, calculateRiskScore(transaction, jnum, jden, tzv), draws, dden)

enrich(transaction, jnum, jden, tzv, draws, dden) ==
    sameScore(transaction, calculateRiskScore(transaction, jnum, jden, tzv), draws, dden)

\* the up to five calls of Math.random() of script.js:407 for a 'fraud' row,
\* all returning k/den
drawsFor(k) == <<k, k, k, k, k>>

-----------------------------------------------------------------------------
(* JSON.stringify(analysisResults), script.js:766 *)

RECURSIVE joinWith(_, _)
joinWith(parts, sep) ==
    IF Len(parts) = 0 THEN ""
    ELSE IF Len(parts) = 1 THEN parts[1]
    ELSE parts[1] \o sep \o joinWith(Tail(parts), sep)

replaceAll(s, c, rep) == joinWith(split(s, c), rep)

\* QuoteJSONString for the characters that occur in a trimmed CSV field
jsonQuote(s) ==
    "\"" \o replaceAll(replaceAll(replaceAll(s, "\\", "\\\\"), "\"", "\\\""),
                       "\t", "\\t") \o "\""

RECURSIVE numToString(_)
numToString(n) ==
    IF n < 10 THEN CharAt("0123456789", n + 1)
    ELSE numToString(n \div 10) \o CharAt("0123456789", (n % 10) + 1)

jsonComputed(rec, key) ==
    CASE key = "riskScore" -> numToString(rec.riskScore)
      [] key = "status" -> jsonQuote(rec.status)
      [] key = "riskLevel" -> jsonQuote(rec.riskLevel)
      [] key = "indicators" ->
            "[" \o joinWith([n \in 1..Len(rec.indicators) |->
                               jsonQuote(rec.indicators[n])], ",") \o "]"

isComputedKey(key) == \E n \in 1..Len(computedKeys) : computedKeys[n] = key

jsonRecord(rec) ==
    LET own == [n \in 1..Len(rec.row) |->
                  jsonQuote(rec.row[n].k) \o ":" \o
                  (IF isComputedKey(rec.row[n].k)
                   THEN jsonComputed(rec, rec.row[n].k)
                   ELSE jsonQuote(rec.row[n].v))]
        added == SelectSeq(computedKeys, LAMBDA key : ~hasField(rec.row, key))
    IN "{" \o joinWith(own \o [n \in 1..Len(added) |->
                                 jsonQuote(added[n]) \o ":" \o jsonComputed(rec, added[n])],
                       ",") \o "}"

\* an array from the texts of its elements
JSONjoin(texts) == "[" \o joinWith(texts, ",") \o "]"

JSONstringify(results) ==
    JSONjoin([n \in 1..Len(results) |-> jsonRecord(results[n])])

\* new Date().toISOString() at the clock-th reading of the clock
toISOString(t) == "2024-01-01T00:00:0" \o numToString(t) \o ".000Z"

-----------------------------------------------------------------------------
(* JSON.parse(resultsJSON), script.js:785.  A JavaScript value is a record: *)
(* t is its type, b / n / s the value of a boolean / number / string, and   *)
(* items the elements of an array or, for an object, its own properties in  *)
(* order, each a key k with a value v.  A number keeps its integer part in  *)
(* n and its text in s.                                                      *)

jsValue(t, b, n, s, items) == [t |-> t, b |-> b, n |-> n, s |-> s, items |-> items]

Undefined == jsValue("undefined", FALSE, 0, "", <<>>)
Null == jsValue("null", FALSE, 0, "", <<>>)
Bool(b) == jsValue("boolean", b, 0, "", <<>>)
Num(n, text) == jsValue("number", FALSE, n, text, <<>>)
Str(s) == jsValue("string", FALSE, 0, s, <<>>)
Arr(items) == jsValue("array", FALSE, 0, "", items)
Obj(members) == jsValue("object", FALSE, 0, "", members)

\* the outcome of parsing one value: the value and the position after it,
\* or a SyntaxError
valueAt(v, next) == [ok |-> TRUE, v |-> v, next |-> next]
SyntaxError == [ok |-> FALSE, v |-> Undefined, next |-> 0]

JsonWhiteSpace == {" ", "\t", "\n", "\r"}

RECURSIVE skipWs(_, _)
skipWs(s, p) == IF charIs(s, p, JsonWhiteSpace) THEN skipWs(s, p + 1) ELSE p

startsWithAt(s, p, word) ==
    p + Len(word) - 1 <= Len(s) /\ SubSeq(s, p, p + Len(word) - 1) = word

RECURSIVE countDigits(_, _)
countDigits(s, p) == IF charIs(s, p, Digits) THEN 1 + countDigits(s, p + 1) ELSE 0

HexDigits == Digits \cup {"a", "b", "c", "d", "e", "f", "A", "B", "C", "D", "E", "F"}

\* the character an escape \c stands for; \b, \f and \uXXXX are kept as
\* written
unescape(c) ==
    CASE c = "\"" -> "\"" [] c = "\\" -> "\\" [] c = "/" -> "/"
      [] c = "n" -> "\n" [] c = "t" -> "\t" [] c = "r" -> "\r"
      [] c = "b" -> "\\b" [] c = "f" -> "\\f"

\* a character that a string literal holds as it is written
plainAt(s, i) == i <= Len(s) /\ CharAt(s, i) \notin {"\"", "\\", "\n", "\t", "\r"}

\* the position of the first character from p on that is not plain, taken
\* sixteen characters at a time
RECURSIVE plainEnd(_, _)
firstOf(s, p, others) ==
    IF others = {} THEN plainEnd(s, p + 16)
    ELSE CHOOSE i \in others : \A j \in others : i <= j

plainEnd(s, p) == firstOf(s, p, { i \in p..(p + 15) : ~plainAt(s, i) })

\* the characters of a string literal from position p on, acc the text read
RECURSIVE parseChars(_, _, _)
RECURSIVE afterPlain(_, _, _, _)
afterPlain(s, p, q, acc) ==
    IF q > Len(s) THEN SyntaxError
    ELSE IF CharAt(s, q) = "\"" THEN valueAt(Str(acc \o SubSeq(s, p, q - 1)), q + 1)
    ELSE IF CharAt(s, q) # "\\" THEN SyntaxError
    ELSE IF charIs(s, q + 1, {"\"", "\\", "/", "b", "f", "n", "r", "t"})
         THEN parseChars(s, q + 2, acc \o SubSeq(s, p, q - 1) \o unescape(CharAt(s, q + 1)))
    ELSE IF charIs(s, q + 1, {"u"}) /\ \A i \in (q + 2)..(q + 5) : charIs(s, i, HexDigits)
         THEN parseChars(s, q + 6, acc \o SubSeq(s, p, q + 5))
    ELSE SyntaxError

parseChars(s, p, acc) == afterPlain(s, p, plainEnd(s, p), acc)

\* a number whose integer part has nInt digits from position p on and whose
\* text starts at from
exponentEnd(s, q) ==
    IF ~charIs(s, q, {"e", "E"}) THEN q
    ELSE IF countDigits(s, q + 1 + signLen(s, q + 1)) = 0 THEN 0
    ELSE q + 1 + signLen(s, q + 1) + countDigits(s, q + 1 + signLen(s, q + 1))

fractionEnd(s, q) ==
    IF ~charIs(s, q, {"."}) THEN exponentEnd(s, q)
    ELSE IF countDigits(s, q + 1) = 0 THEN 0
    ELSE exponentEnd(s, q + 1 + countDigits(s, q + 1))

numberUpTo(s, from, p, nInt, end) ==
    IF end = 0 THEN SyntaxError
    ELSE valueAt(Num(IF from < p THEN 0 - toNat(SubSeq(s, p, p + nInt - 1))
                    ELSE toNat(SubSeq(s, p, p + nInt - 1)),
                    SubSeq(s, from, end - 1)), end)

integerPart(s, from, p, nInt) ==
    IF nInt = 0 \/ (nInt > 1 /\ CharAt(s, p) = "0") THEN SyntaxError
    ELSE numberUpTo(s, from, p, nInt, fractionEnd(s, p + nInt))

parseNumber(s, p) ==
    IF charIs(s, p, {"-"}) THEN integerPart(s, p, p + 1, countDigits(s, p + 1))
    ELSE integerPart(s, p, p, countDigits(s, p))

RECURSIVE parseValue(_, _)
RECURSIVE parseElements(_, _, _)
RECURSIVE parseMembers(_, _, _)
RECURSIVE writtenObject(_, _)

\* after an element: a comma and the next element, or the closing bracket
elementSep(s, q, acc) ==
    IF charIs(s, q, {","}) THEN parseElements(s, skipWs(s, q + 1), acc)
    ELSE IF charIs(s, q, {"]"}) THEN valueAt(Arr(acc), q + 1)
    ELSE SyntaxError

afterElement(s, r, acc) ==
    IF ~r.ok THEN SyntaxError
    ELSE elementSep(s, skipWs(s, r.next), Append(acc, r.v))

\* the elements of an array from position p on, acc those read so far
parseElements(s, p, acc) ==
    IF acc = <<>> /\ charIs(s, p, {"]"}) THEN valueAt(Arr(<<>>), p + 1)
    ELSE afterElement(s, parseValue(s, p), acc)

memberSep(s, q, acc) ==
    IF charIs(s, q, {","}) THEN parseMembers(s, skipWs(s, q + 1), acc)
    ELSE IF charIs(s, q, {"}"}) THEN valueAt(Obj(acc), q + 1)
    ELSE SyntaxError

\* a key that occurs again takes the later value
afterMember(s, key, r, acc) ==
    IF ~r.ok THEN SyntaxError
    ELSE memberSep(s, skipWs(s, r.next), RowAssign(acc, key, r.v))

afterColon(s, key, q, acc) ==
    IF ~charIs(s, q, {":"}) THEN SyntaxError
    ELSE afterMember(s, key, parseValue(s, skipWs(s, q + 1)), acc)

afterKey(s, k, acc) ==
    IF ~k.ok THEN SyntaxError
    ELSE afterColon(s, k.v.s, skipWs(s, k.next), acc)

\* the members of an object from position p on, acc those read so far
parseMembers(s, p, acc) ==
    IF acc = <<>> /\ charIs(s, p, {"}"}) THEN valueAt(Obj(<<>>), p + 1)
    ELSE IF ~charIs(s, p, {"\""}) THEN SyntaxError
    ELSE afterKey(s, parseChars(s, p + 1, ""), acc)

parseValue(s, p) ==
    IF p > Len(s) THEN SyntaxError
    ELSE IF CharAt(s, p) = "\"" THEN parseChars(s, p + 1, "")
    ELSE IF CharAt(s, p) = "[" THEN parseElements(s, skipWs(s, p + 1), <<>>)
    ELSE IF CharAt(s, p) = "{" THEN writtenObject(s, p)
    ELSE IF startsWithAt(s, p, "null") THEN valueAt(Null, p + 4)
    ELSE IF startsWithAt(s, p, "true") THEN valueAt(Bool(TRUE), p + 4)
    ELSE IF startsWithAt(s, p, "false") THEN valueAt(Bool(FALSE), p + 5)
    ELSE parseNumber(s, p)

\* nothing but white space may follow the value
wholeText(text, r) ==
    IF r.ok /\ skipWs(text, r.next) = Len(text) + 1 THEN r ELSE SyntaxError

JSONparse(text) == wholeText(text, parseValue(text, skipWs(text, 1)))

-----------------------------------------------------------------------------
(* What the results page does with a JavaScript value *)

\* ToBoolean, as in !results and in value || fallback
truthy(v) ==
    CASE v.t = "undefined" -> FALSE
      [] v.t = "null" -> FALSE
      [] v.t = "boolean" -> v.b
      [] v.t = "number" -> parseFloat(v.s).mant # 0
      [] v.t = "string" -> v.s # ""
      [] v.t = "array" -> TRUE
      [] v.t = "object" -> TRUE

\* reading a property of null or undefined is a TypeError
throwsOnRead(v) == v.t \in {"undefined", "null"}

\* v.name where the read does not throw
getProp(v, name) ==
    IF v.t = "object"
    THEN (IF hasField(v.items, name) THEN rowGet(v.items, name) ELSE Undefined)
    ELSE IF name = "length" /\ v.t = "array" THEN Num(Len(v.items), numToString(Len(v.items)))
    ELSE IF name = "length" /\ v.t = "string" THEN Num(Len(v.s), numToString(Len(v.s)))
    ELSE Undefined

\* ToString, as in a template literal; an element of an array that is null
\* reads as "" in Array.prototype.join
RECURSIVE toText(_)
toText(v) ==
    CASE v.t = "undefined" -> "undefined"
      [] v.t = "null" -> "null"
      [] v.t = "boolean" -> (IF v.b THEN "true" ELSE "false")
      [] v.t = "number" -> v.s
      [] v.t = "string" -> v.s
      [] v.t = "object" -> "[object Object]"
      [] v.t = "array" ->
            joinWith([n \in 1..Len(v.items) |->
                        IF v.items[n].t = "null" THEN "" ELSE toText(v.items[n])], ",")

\* value || fallback, as text
textOr(v, fallback) == IF truthy(v) THEN toText(v) ELSE fallback

\* String.prototype.toLowerCase for the letters A-Z
lowerChar(c) ==
    CASE c = "A" -> "a" [] c = "B" -> "b" [] c = "C" -> "c" [] c = "D" -> "d"
      [] c = "E" -> "e" [] c = "F" -> "f" [] c = "G" -> "g" [] c = "H" -> "h"
      [] c = "I" -> "i" [] c = "J" -> "j" [] c = "K" -> "k" [] c = "L" -> "l"
      [] c = "M" -> "m" [] c = "N" -> "n" [] c = "O" -> "o" [] c = "P" -> "p"
      [] c = "Q" -> "q" [] c = "R" -> "r" [] c = "S" -> "s" [] c = "T" -> "t"
      [] c = "U" -> "u" [] c = "V" -> "v" [] c = "W" -> "w" [] c = "X" -> "x"
      [] c = "Y" -> "y" [] c = "Z" -> "z" [] OTHER -> c

RECURSIVE toLowerCase(_)
toLowerCase(s) ==
    IF Len(s) = 0 THEN ""
    ELSE IF Len(s) = 1 THEN lowerChar(s)
    ELSE toLowerCase(SubSeq(s, 1, Len(s) \div 2))
         \o toLowerCase(SubSeq(s, Len(s) \div 2 + 1, Len(s)))

-----------------------------------------------------------------------------
(* formatCurrency, script.js:51-56: Intl.NumberFormat('en-US', {style:      *)
(* 'currency', currency: 'USD'}).format(amount) of a number mant * 10^scale *)
(* that fits 32 bits in cents; a half cent rounds away from zero.            *)

pad2(n) == IF n < 10 THEN "0" \o numToString(n) ELSE numToString(n)

pad3(n) == IF n < 100 THEN "0" \o pad2(n) ELSE numToString(n)

RECURSIVE group3(_)
group3(n) ==
    IF n < 1000 THEN numToString(n)
    ELSE group3(n \div 1000) \o "," \o pad3(n % 1000)

centsOf(mant, scale) ==
    IF scale >= 0 - 2 THEN mant * pow10(scale + 2)
    ELSE IF 0 - scale - 2 > 9 THEN 0
    ELSE (mant + (pow10(0 - scale - 2) \div 2)) \div pow10(0 - scale - 2)

dollars(cents) == "$" \o group3(cents \div 100) \o "." \o pad2(cents % 100)

formatCurrency(amount) ==
    IF amount.kind = "inf" THEN (IF amount.neg THEN "-$Infinity" ELSE "$Infinity")
    ELSE IF amount.neg /\ centsOf(amount.mant, amount.scale) > 0
         THEN "-" \o dollars(centsOf(amount.mant, amount.scale))
    ELSE dollars(centsOf(amount.mant, amount.scale))
-----------------------------------------------------------------------------
(* formatDateTime, script.js:63-72: new Date(timestamp).toLocaleString(     *)
(* 'en-US', {year: 'numeric', month: 'short', day: 'numeric', hour:         *)
(* '2-digit', minute: '2-digit'}) of a text, in the browser's zone           *)

\* minutes from the written date's midnight to the instant, in the zone tzv
localMinutes(s, tzv) ==
    IF Len(s) = 10 THEN tzv
    ELSE 60 * num2(s, 12) + num2(s, 15) + tzv
         + zoneOf(SubSeq(s, afterMs(s, IF hasSeconds(s) THEN 20 ELSE 17), Len(s)), tzv).add

monthShort(m) ==
    <<"Jan", "Feb", "Mar", "Apr", "May", "Jun",
      "Jul", "Aug", "Sep", "Oct", "Nov", "Dec">>[m]

\* the calendar day k days after (before, for k < 0) y-m-d
RECURSIVE dayPlus(_, _, _, _)
dayPlus(y, m, d, k) ==
    IF k = 0 THEN monthShort(m) \o " " \o numToString(d) \o ", " \o numToString(y)
    ELSE IF k > 0
         THEN (IF d < daysIn(y, m) THEN dayPlus(y, m, d + 1, k - 1)
               ELSE IF m < 12 THEN dayPlus(y, m + 1, 1, k - 1)
               ELSE dayPlus(y + 1, 1, 1, k - 1))
    ELSE IF d > 1 THEN dayPlus(y, m, d - 1, k + 1)
    ELSE IF m > 1 THEN dayPlus(y, m - 1, daysIn(y, m - 1), k + 1)
    ELSE dayPlus(y - 1, 12, 31, k + 1)

\* hh:mm AM/PM of a minute of the day
clock12(minute) ==
    pad2(IF (minute \div 60) % 12 = 0 THEN 12 ELSE (minute \div 60) % 12)
    \o ":" \o pad2(minute % 60)
    \o (IF minute < 720 THEN " AM" ELSE " PM")

localeString(s, minutes) ==
    dayPlus(100 * num2(s, 1) + num2(s, 3), num2(s, 6), num2(s, 9), minutes \div 1440)
    \o ", " \o clock12(minutes % 1440)

\* of a value that is a text, or undefined
formatDateTime(timestamp, tzv) ==
    IF timestamp.t # "string" THEN "Invalid Date"
    ELSE IF ~dateParse(timestamp.s, tzv).valid THEN "Invalid Date"
    ELSE localeString(timestamp.s, localMinutes(timestamp.s, tzv))

-----------------------------------------------------------------------------
(* displayResults, script.js:462-486, for the value results that            *)
(* initResultsPage hands over                                               *)

isText(v, s) == v.t = "string" /\ v.s = s

\* results.filter(r => r.status === status).length
countStatus(results, statuses) ==
    Cardinality({ n \in 1..Len(results.items) :
                    \E s \in statuses : isText(getProp(results.items[n], "status"), s) })

\* ((fraudCount / totalTransactions) * 100).toFixed(1)
toFixed1(fraudCount, totalTransactions) ==
    IF totalTransactions = 0 THEN (IF fraudCount = 0 THEN "NaN" ELSE "Infinity")
    ELSE numToString(((2000 * fraudCount + totalTransactions)
                        \div (2 * totalTransactions)) \div 10)
         \o "." \o
         numToString(((2000 * fraudCount + totalTransactions)
                        \div (2 * totalTransactions)) % 10)

\* script.js:469-478: the four summary cards
summaryCards(results) ==
    [totalTransactions |-> numToString(Len(results.items)),
     legitimateCount |-> numToString(countStatus(results, {"legitimate", "warning"})),
     fraudCount |-> numToString(countStatus(results, {"fraud"})),
     fraudRate |-> toFixed1(countStatus(results, {"fraud"}), Len(results.items)) \o "%"]

\* script.js:493-516
displayStatusAlert(fraudCount, totalCount) ==
    IF fraudCount = 0
    THEN [className |-> "alert alert-success",
          title |-> "No Fraud Detected",
          message |-> "All " \o numToString(totalCount)
                      \o " transactions appear to be legitimate. No suspicious activity detected."]
    ELSE [className |-> "alert alert-danger",
          title |-> "Fraud Detected",
          message |-> numToString(fraudCount)
                      \o " potentially fraudulent transaction(s) detected out of "
                      \o numToString(totalCount)
                      \o " total transactions. Please review flagged transactions immediately."]

\* transaction.status === 'fraud' ? ... : transaction.status === 'warning' ? ...
statusLabel(status, fraud, warning, other) ==
    IF isText(status, "fraud") THEN fraud
    ELSE IF isText(status, "warning") THEN warning
    ELSE other

\* parseFloat(transaction.amount) || 0
amountValue(transaction) == OrZero(parseFloat(toText(getProp(transaction, "amount"))))

\* script.js:540-559: the text of the row that the template makes, which is
\* the text between its tags
rowText(transaction, tzv) ==
    "\n            " \o textOr(getProp(transaction, "transaction_id"), "N/A")
    \o "\n            " \o formatCurrency(amountValue(transaction))
    \o "\n            " \o textOr(getProp(transaction, "merchant"), "N/A")
    \o "\n            " \o textOr(getProp(transaction, "location"), "N/A")
    \o "\n            " \o formatDateTime(getProp(transaction, "timestamp"), tzv)
    \o "\n            \n                " \o toText(getProp(transaction, "riskScore"))
    \o "%\n                " \o toText(getProp(transaction, "riskLevel"))
    \o "\n            \n            \n                \n                    "
    \o statusLabel(getProp(transaction, "status"), "Fraud", "Warning", "Legitimate")
    \o "\n                \n            \n            \n                \n"
    \o "                    \n                \n            \n        "

\* script.js:528-563: one <tr> per element, shown
populateResultsTable(results, tzv) ==
    [n \in 1..Len(results.items) |->
        [status |-> toText(getProp(results.items[n], "status")),
         text |-> rowText(results.items[n], tzv),
         hidden |-> FALSE]]

\* results.filter and forEach exist and their callbacks read no property of
\* null: otherwise displayResults ends in a TypeError at script.js:470
rendersWithoutError(results) ==
    /\ results.t = "array"
    /\ \A n \in 1..Len(results.items) : ~throwsOnRead(results.items[n])
-----------------------------------------------------------------------------
(* Inputs of the parser: CSV texts assembled from header and data lines *)

HeaderLines ==
    { "id,amount,location,timestamp",
      "id , amount,location",
      "id,amount,id",
      "amount" }

DataLines ==
    { "T1,6000,Unknown,2024-01-01T03:00:00Z",
      "T2, 5 ",
      "",
      "  ",
      ",2500,Lagos Nigeria,x,extra" }

LineEnds == {"\n", "\r\n"}

RECURSIVE joinLines(_, _)
joinLines(lines, nl) ==
    IF Len(lines) = 0 THEN ""
    ELSE IF Len(lines) = 1 THEN lines[1]
    ELSE lines[1] \o nl \o joinLines(Tail(lines), nl)

SeqsUpTo(S, n) == UNION { [1..k -> S] : k \in 0..n }

ParseInputs ==
    { joinLines(<<h>> \o ls, nl) \o tl :
        h \in HeaderLines, ls \in SeqsUpTo(DataLines, MaxLines),
        nl \in LineEnds, tl \in {"", "\n"} }
    \cup {"", " \n "}

-----------------------------------------------------------------------------
(* State of the application before any page is used, and of the pure part *)

NoFile == [name |-> "", present |-> FALSE]

Absent == [present |-> FALSE, value |-> ""]

\* window.analysisResults and window.analysisTimestamp before script.js:
\* 798-799 assign them
EmptyWindow == [analysisResults |-> Undefined, analysisTimestamp |-> Undefined]

\* the elements that script.js writes, as the document has them before any
\* handler ran: no text, no rows, the alert and the indicator hidden
emptyDocument ==
    [dateTime |-> "",
     cards |-> [totalTransactions |-> "", legitimateCount |-> "",
                fraudCount |-> "", fraudRate |-> ""],
     statusAlert |-> [className |-> "alert d-none", title |-> "", message |-> ""],
     tableRows |-> <<>>,
     noResultsHidden |-> TRUE]

NoModal ==
    [shown |-> FALSE, transactionId |-> "", amount |-> "", merchant |-> "",
     card |-> "", location |-> "", timestamp |-> "", riskScore |-> "",
     riskBar |-> "", statusClass |-> "", statusText |-> "", indicators |-> <<>>]

NoDownload == [present |-> FALSE, content |-> ""]

\* a document as it is parsed: no dark-mode class anywhere
LightTheme == [html |-> FALSE, body |-> FALSE, icon |-> "bi bi-moon-stars-fill"]

\* localStorage.getItem('darkMode') === 'enabled'
isEnabled(entry) == entry.present /\ entry.value = "enabled"

\* script.js:974-980, run while the script loads
earlyInit(entry, classes) ==
    IF isEnabled(entry) THEN [classes EXCEPT !.html = TRUE, !.body = TRUE] ELSE classes

\* script.js:930-943 with updateDarkModeButton(true), 885-894, which finds
\* no button yet
initDarkMode(entry, classes) ==
    IF isEnabled(entry) THEN [classes EXCEPT !.body = TRUE] ELSE classes

\* script.js:947-966: the button shows the sun in dark mode
createDarkModeButton(classes) ==
    [classes EXCEPT !.icon = IF classes.body THEN "bi bi-sun-fill"
                             ELSE "bi bi-moon-stars-fill"]

\* the theme of a document once the script and its DOMContentLoaded
\* listener of 983-992 have run
loadedTheme(entry) ==
    createDarkModeButton(initDarkMode(entry, earlyInit(entry, LightTheme)))

PageInit ==
    /\ window = EmptyWindow
    /\ currentFilter = "all"
    /\ searchBox = ""
    /\ dom = emptyDocument
    /\ modal = NoModal
    /\ download = NoDownload
    /\ threw = ""

\* the progress section before a run
NoProgress ==
    [total |-> "", width |-> [num |-> 0, den |-> 1], label |-> "", processed |-> "",
     stage |-> ""]

ViewInit ==
    /\ PageInit
    /\ darkMode = Absent
    /\ theme = loadedTheme(Absent)

AppInit ==
    /\ page = "upload"
    /\ uploadedFile = NoFile
    /\ csvData = <<>>
    /\ analysisResults = <<>>
    /\ analyzeBtnDisabled = TRUE
    /\ cardHidden = FALSE
    /\ progress = NoProgress
    /\ runs = <<>>
    /\ localStorage = [results |-> Absent, timestamp |-> Absent]
    /\ pendingNav = "none"
    /\ lastAlert = ""
    /\ clock = 0
    /\ started = 0
    /\ ViewInit

PureInit ==
    /\ fop = "none"
    /\ fin = ""
    /\ fout = <<>>

-----------------------------------------------------------------------------
(* Inputs of the scorer: rows with any of the three fields it reads, each   *)
(* field present or missing                                                 *)

AmountTexts ==
    { "6000", "5000", "5000.01", "2500", "1500", "1000", "50", "9.99", "-20",
      "6e3", "12abc", "abc", "", "Infinity" }

LocationTexts ==
    { "Unknown", "Russia-Ukraine", "nigeria", "" }

TimestampTexts ==
    { "2024-01-01T03:00:00Z", "2024-01-01T05:59:59.000Z",
      "2024-01-01T23:45:00+05:30", "2024-01-01T04:10", "2024-01-01",
      "2023-02-29T03:00:00Z", "" }

TZOffsets == {0 - 300, 0, 330}

field(name, text) == [k |-> name, v |-> text]

ScoreRows ==
    { <<field("amount", a), field("location", l), field("timestamp", t)>> :
        a \in AmountTexts, l \in LocationTexts, t \in TimestampTexts }
    \cup { <<field("location", l), field("timestamp", t)>> :
        l \in LocationTexts, t \in TimestampTexts }
    \cup { <<field("amount", a), field("timestamp", t)>> :
        a \in AmountTexts, t \in TimestampTexts }
    \cup { <<field("amount", a), field("location", l)>> :
        a \in AmountTexts, l \in LocationTexts }
    \cup { EmptyRow }

-----------------------------------------------------------------------------
(* The scorer and the classifier applied to one row, script.js:405-414 *)

InitScore ==
    /\ AppInit
    /\ tz \in TZOffsets
    /\ fop = "none"
    /\ fin \in ScoreRows
    /\ fout = <<>>

ApplyScore ==
    /\ fop = "none"
    /\ \E jnum \in 0..(40 * JitterDen - 1) :
         LET riskScore == calculateRiskScore(fin, jnum, JitterDen, tz)
         IN fout' = [jitter |-> jnum,
                     riskScore |-> riskScore,
                     status |-> determineFraudStatus(riskScore),
                     riskLevel |-> getRiskLevel(riskScore)]
    /\ fop' = "score"
    /\ UNCHANGED <<fin, tz, appVars, viewVars>>

NextScore == ApplyScore

SpecScore == InitScore /\ [][NextScore]_vars

\* C1: for every row, whatever is empty, missing or unparsable, and every
\* jitter, the scorer returns an integer between 0 and 100.
C1_ScoreInRange ==
    fop = "score" => fout.riskScore \in 0..100

C1_Witness ==
    /\ fop = "score"
    /\ fin = EmptyRow
    /\ fout.riskScore = 55

C1_WitnessCap ==
    /\ fop = "score"
    /\ fout.riskScore = 100
    /\ fout.jitter < 40 * JitterDen - 1

\* What the claims about the scorer refer to
DenylistedLocation(row) ==
    /\ hasField(row, "location")
    /\ \/ includes(rowGet(row, "location"), "Nigeria")
       \/ includes(rowGet(row, "location"), "Russia")
       \/ includes(rowGet(row, "location"), "Ukraine")
       \/ includes(rowGet(row, "location"), "Unknown")

\* the amount as a number, an unparsable or missing one counting as 0
RefAmount(row) ==
    LET parsed == parseFloat(IF hasField(row, "amount") THEN rowGet(row, "amount") ELSE "undefined")
    IN IF parsed.kind = "nan" THEN Zero ELSE parsed

RefTier(row) ==
    LET amount == RefAmount(row)
    IN CASE greaterThan(amount, 5000) -> 30
         [] ~greaterThan(amount, 5000) /\ greaterThan(amount, 2000) -> 20
         [] ~greaterThan(amount, 2000) /\ greaterThan(amount, 1000) -> 10
         [] ~greaterThan(amount, 1000) /\ lessThan(amount, 10) -> 15
         [] OTHER -> 0

NightHour(row, tzv) == hourOf(row, tzv) \in 1..5

\* the integer nearest to num/den, a half going up
Nearest(num, den) ==
    CHOOSE r \in 0..110 : 2 * den * r - den <= 2 * num /\ 2 * num < 2 * den * r + den

\* C4: the score is min(round(tier + jitter + loc + time), 100) with the
\* tier table of the amount, loc = 25 iff the location contains a denylisted
\* name (once), time = 15 iff the timestamp parses to a local hour in 1..5.
C4_Reference ==
    fop = "score" =>
        LET loc == IF DenylistedLocation(fin) THEN 25 ELSE 0
            time == IF NightHour(fin, tz) THEN 15 ELSE 0
            sum == (RefTier(fin) + loc + time) * JitterDen + fout.jitter
        IN fout.riskScore = min(Nearest(sum, JitterDen), 100)

C4_Witness ==
    /\ fop = "score"
    /\ hasField(fin, "amount") /\ rowGet(fin, "amount") = "abc"
    /\ hasField(fin, "location") /\ rowGet(fin, "location") = "Russia-Ukraine"
    /\ hasField(fin, "timestamp") /\ rowGet(fin, "timestamp") = "2023-02-29T03:00:00Z"
    /\ fout.jitter = 1
    /\ fout.riskScore = 41

\* C5: amount over 5000, a denylisted location and a local hour in 1..5
\* give 'fraud' / 'High' whatever the jitter, and exactly 70 with jitter 0.
C5_AlwaysFraud ==
    (/\ fop = "score"
     /\ greaterThan(RefAmount(fin), 5000)
     /\ DenylistedLocation(fin)
     /\ NightHour(fin, tz)) =>
        /\ fout.status = "fraud"
        /\ fout.riskLevel = "High"
        /\ (fout.jitter = 0 => fout.riskScore = 70)

C5_Witness ==
    /\ fop = "score"
    /\ greaterThan(RefAmount(fin), 5000)
    /\ DenylistedLocation(fin)
    /\ hourOf(fin, tz) = 5
    /\ fout.jitter = 0
    /\ fout.riskScore = 70
    /\ fout.status = "fraud"

-----------------------------------------------------------------------------
(* The classifier applied to every score, script.js:145-160 *)

InitClassify ==
    /\ AppInit
    /\ tz = 0
    /\ fop = "none"
    /\ fin \in 0..100
    /\ fout = <<>>

ApplyClassify ==
    /\ fop = "none"
    /\ fop' = "classify"
    /\ fout' = [status |-> determineFraudStatus(fin), riskLevel |-> getRiskLevel(fin)]
    /\ UNCHANGED <<fin, tz, appVars, viewVars>>

NextClassify == ApplyClassify

SpecClassify == InitClassify /\ [][NextClassify]_vars

\* C2: a score s in 0..100 is 'fraud'/'High' iff s >= 70, 'warning'/'Medium'
\* iff 50 <= s < 70, and 'legitimate'/'Low' otherwise.
C2_Thresholds ==
    fop = "classify" =>
        /\ (fout.status = "fraud") <=> (fin >= 70)
        /\ (fout.status = "warning") <=> (fin >= 50 /\ fin < 70)
        /\ (fout.status = "legitimate") <=> (fin < 50)
        /\ (fout.riskLevel = "High") <=> (fin >= 70)
        /\ (fout.riskLevel = "Medium") <=> (fin >= 50 /\ fin < 70)
        /\ (fout.riskLevel = "Low") <=> (fin < 50)

C2_Witness ==
    /\ fop = "classify"
    /\ fin = 70
    /\ fout.status = "fraud"
    /\ fout.riskLevel = "High"

-----------------------------------------------------------------------------
(* The parser applied to one input *)

InitParse ==
    /\ AppInit
    /\ tz = 0
    /\ fop = "none"
    /\ fin \in ParseInputs
    /\ fout = <<>>

ApplyParseCSV ==
    /\ fop = "none"
    /\ fop' = "parseCSV"
    /\ fout' = parseCSV(fin)
    /\ UNCHANGED <<fin, tz, appVars, viewVars>>

NextParse == ApplyParseCSV

SpecParse == InitParse /\ [][NextParse]_vars

\* What the claims about the parser refer to: the lines of the trimmed text,
\* the header names, and the data lines that are not blank.
InLines == split(trim(fin), "\n")

InHeaders == mapTrim(split(InLines[1], ","))

NonBlank == { i \in 2..Len(InLines) : trim(InLines[i]) # "" }

\* the r-th non-blank data line, counted in line order
NthNonBlank(r) ==
    CHOOSE i \in NonBlank : Cardinality({ k \in NonBlank : k < i }) = r - 1

\* the trimmed j-th comma-separated field of a line, "" when it has none
FieldAt(line, j) ==
    LET fs == split(line, ",")
    IN IF j <= Len(fs) THEN trim(fs[j]) ELSE ""

LastIndexOf(headers, name) ==
    CHOOSE j \in 1..Len(headers) :
        /\ headers[j] = name
        /\ \A k \in (j + 1)..Len(headers) : headers[k] # name

\* C6: one row per non-blank line after the header, in line order, each row
\* keyed by exactly the header's column names; an empty or header-only text
\* gives no rows.
C6_OneRowPerLine ==
    fop = "parseCSV" =>
        /\ Len(fout) = Cardinality(NonBlank)
        /\ \A r \in 1..Len(fout) :
              /\ rowKeys(fout[r]) = { InHeaders[j] : j \in 1..Len(InHeaders) }
              /\ fout[r] = parseCSV(InLines[1] \o "\n" \o InLines[NthNonBlank(r)])[1]
        /\ (Len(InLines) = 1 => fout = <<>>)

C6_Witness ==
    /\ fop = "parseCSV"
    /\ Len(fout) = 2
    /\ Cardinality(NonBlank) < Len(InLines) - 1
    /\ fout[1] # fout[2]

\* C7 as stated: column j of every row holds the trimmed j-th field of its
\* line, or "" when the line has no j-th field.
C7_Positional ==
    fop = "parseCSV" =>
        \A r \in 1..Len(fout) : \A j \in 1..Len(InHeaders) :
            rowGet(fout[r], InHeaders[j]) = FieldAt(InLines[NthNonBlank(r)], j)

\* C7 amended: a column name holds the trimmed field at the LAST position
\* where that name occurs in the header ("" when the line is too short); for
\* a name that occurs once this is its own position.
C7_PositionalLastWins ==
    fop = "parseCSV" =>
        \A r \in 1..Len(fout) : \A j \in 1..Len(InHeaders) :
            rowGet(fout[r], InHeaders[j]) =
                FieldAt(InLines[NthNonBlank(r)], LastIndexOf(InHeaders, InHeaders[j]))

C7_Witness ==
    /\ fop = "parseCSV"
    /\ Len(fout) >= 1
    /\ InHeaders = <<"id", "amount", "id">>
    /\ \E r \in 1..Len(fout) : rowGet(fout[r], "id") = "" /\ rowGet(fout[r], "amount") = "5"
-----------------------------------------------------------------------------
(* The upload page and the analysis pipeline, script.js:223-426, 764-802 *)

TwoRowsText ==
    "id,amount,location,timestamp\n"
    \o "T1,6000,Unknown,2024-01-01T12:00:00Z\n"
    \o "T2,50,Paris,2024-01-01T03:00:00Z\n"

OneRowText == "id,amount\nT3,2500"

HeaderOnlyText == "id,amount,location,timestamp\n"

\* a File object: the handle of a file on the user's disk
file(name) == [name |-> name, present |-> TRUE]

\* the files the user can pick
Files == { file("tx.csv"), file("empty.csv"), file("notes.txt") }

\* a file of n data rows, the two rows of TwoRowsText in turn
RowsText(n) ==
    joinLines(<<"id,amount,location,timestamp">>
              \o [k \in 1..n |-> IF k % 2 = 1 THEN "T1,6000,Unknown,2024-01-01T12:00:00Z"
                                  ELSE "T2,50,Paris,2024-01-01T03:00:00Z"],
              "\n")

\* the file <n>.csv holds n data rows
rowsFile(n) == file(numToString(n) \o ".csv")

\* what reader.readAsText gives for each of them
readAsText(f) ==
    CASE f.name = "tx.csv" -> TwoRowsText
      [] f.name = "empty.csv" -> HeaderOnlyText
      [] f.name = "notes.txt" -> OneRowText
      [] OTHER -> RowsText(toNat(SubSeq(f.name, 1, Len(f.name) - 4)))

\* the browser's time zone, minutes east of UTC
Zones == {0}

InitApp ==
    /\ AppInit
    /\ tz \in Zones
    /\ PureInit

\* The rows of these files, and for each of them the record of script.js:
\* 405-415 and its JSON text, computed once per row, draw and zone.
FileRows ==
    UNION { { parseCSV(readAsText(f))[n] : n \in 1..Len(parseCSV(readAsText(f))) } :
            f \in Files }

recordOf ==
    [x \in FileRows \X (0..(RandDen - 1)) \X Zones |->
        enrich(x[1], 40 * x[2], RandDen, x[3], drawsFor(x[2]), RandDen)]

jsonOf == [rec \in { recordOf[x] : x \in DOMAIN recordOf } |-> jsonRecord(rec)]

\* The objects of these texts, parsed once
objectOf ==
    [text \in { jsonOf[rec] : rec \in DOMAIN jsonOf } |->
        parseMembers(text, skipWs(text, 2), <<>>).v]

objectHere(s, p, texts) ==
    IF texts = {} THEN parseMembers(s, skipWs(s, p + 1), <<>>)
    ELSE valueAt(objectOf[CHOOSE text \in texts : TRUE],
                 p + Len(CHOOSE text \in texts : TRUE))

\* the object that starts at position p of s: an object reads the same
\* wherever its text stands, so one whose text objectOf holds is taken from
\* there
writtenObject(s, p) ==
    objectHere(s, p, { text \in DOMAIN objectOf : startsWithAt(s, p, text) })

\* a selection that forgets the file picked before when it rejects one
handleFileSelectionForgetting(f) ==
    /\ page = "upload"
    /\ IF ~endsWith(f.name, ".csv")
       THEN /\ lastAlert' = "Please upload a CSV file"
            /\ uploadedFile' = NoFile
            /\ analyzeBtnDisabled' = TRUE
       ELSE /\ uploadedFile' = f
            /\ analyzeBtnDisabled' = FALSE
            /\ lastAlert' = ""
    /\ UNCHANGED <<page, tz, csvData, analysisResults, cardHidden, runs,
                   localStorage, pendingNav, clock, started, progress, pureVars,
                   viewVars>>

\* script.js:223-262
handleFileSelection(f) ==
    /\ page = "upload"
    /\ IF ~endsWith(f.name, ".csv")
       THEN /\ lastAlert' = "Please upload a CSV file"
            /\ UNCHANGED <<uploadedFile, analyzeBtnDisabled>>
       ELSE /\ uploadedFile' = f
            /\ analyzeBtnDisabled' = FALSE
            /\ lastAlert' = ""
    /\ UNCHANGED <<page, tz, csvData, analysisResults, cardHidden, runs,
                   localStorage, pendingNav, clock, started, progress, pureVars,
                   viewVars>>

\* script.js:267-278
clearFile ==
    /\ page = "upload"
    /\ uploadedFile' = NoFile
    /\ csvData' = <<>>
    /\ analyzeBtnDisabled' = TRUE
    /\ lastAlert' = ""
    /\ UNCHANGED <<page, tz, analysisResults, cardHidden, runs, localStorage,
                   pendingNav, clock, started, progress, pureVars,
                   viewVars>>

\* an activation that starts a run on the sample file when none is selected
analyzeTransactionsUnguarded ==
    /\ page = "upload"
    /\ started < MaxRuns
    /\ cardHidden' = TRUE
    /\ runs' = Append(runs, [pc |-> "reading",
                             file |-> IF uploadedFile.present THEN uploadedFile
                                      ELSE file("tx.csv"),
                             transactions |-> <<>>, i |-> 0])
    /\ started' = started + 1
    /\ lastAlert' = IF uploadedFile.present THEN "" ELSE "Please upload a CSV file first"
    /\ UNCHANGED <<page, tz, uploadedFile, csvData, analysisResults,
                   analyzeBtnDisabled, localStorage, pendingNav, clock, progress, pureVars,
                   viewVars>>

\* script.js:336-361, up to reader.readAsText(uploadedFile)
analyzeTransactions ==
    /\ page = "upload"
    /\ IF ~uploadedFile.present
       THEN /\ lastAlert' = "Please upload a CSV file first"
            /\ UNCHANGED <<cardHidden, runs, started>>
       ELSE /\ started < MaxRuns
            /\ cardHidden' = TRUE
            /\ runs' = Append(runs, [pc |-> "reading", file |-> uploadedFile,
                                     transactions |-> <<>>, i |-> 0])
            /\ started' = started + 1
            /\ lastAlert' = ""
    /\ UNCHANGED <<page, tz, uploadedFile, csvData, analysisResults,
                   analyzeBtnDisabled, localStorage, pendingNav, clock, progress, pureVars,
                   viewVars>>

\* script.js:764-770
saveResults(results) ==
    /\ localStorage' =
          [results |-> [present |-> TRUE,
                        value |-> JSONjoin([n \in 1..Len(results) |-> jsonOf[results[n]]])],
           timestamp |-> [present |-> TRUE, value |-> toISOString(clock)]]
    /\ clock' = clock + 1

\* script.js:421-425: the loop is over
finishAnalysis(r, results) ==
    /\ saveResults(results)
    /\ pendingNav' = "results"
    /\ runs' = [runs EXCEPT ![r].pc = "done"]

stages ==
    << "Initializing fraud detection model...",
       "Loading transaction data...",
       "Analyzing transaction patterns...",
       "Calculating risk scores...",
       "Finalizing results..." >>

\* a progress display that counts the rows from 0
progressUpdateFromZero(shown, i, totalCount) ==
    [total |-> shown.total,
     width |-> [num |-> 100 * i, den |-> totalCount],
     label |-> numToString(mathRound(100 * i, totalCount)) \o "%",
     processed |-> numToString(i),
     stage |-> stages[((i * Len(stages)) \div totalCount) + 1]]

\* script.js:390-403 in iteration i (from 0) of a run over totalCount rows,
\* on the display as it is shown.  The width is ((i + 1) / totalCount) * 100
\* percent, kept as the fraction num/den; the label is Math.round of it.
progressUpdate(shown, i, totalCount) ==
    [total |-> shown.total,
     width |-> [num |-> 100 * (i + 1), den |-> totalCount],
     label |-> numToString(mathRound(100 * (i + 1), totalCount)) \o "%",
     processed |-> numToString(i + 1),
     stage |-> stages[((i * Len(stages)) \div totalCount) + 1]]

\* script.js:387-418: one iteration, up to its await; Math.random() returns
\* k/RandDen throughout the iteration
processRow(r, transactions, results, shown) ==
    \E k \in 0..(RandDen - 1) :
        /\ progress' = progressUpdate(shown, runs[r].i, Len(transactions))
        /\ analysisResults' =
              Append(results, recordOf[<<transactions[runs[r].i + 1], k, tz>>])
        /\ runs' = [runs EXCEPT ![r].pc = "awaiting",
                                ![r].transactions = transactions,
                                ![r].i = runs[r].i + 1]
        /\ UNCHANGED <<localStorage, clock, pendingNav>>

\* script.js:353-359 with performAnalysis (367-426) up to its first await;
\* line 375 writes the number of rows into #totalCount
readerOnload(r) ==
    /\ page = "upload"
    /\ runs[r].pc = "reading"
    /\ LET transactions == parseCSV(readAsText(runs[r].file))
       IN /\ csvData' = transactions
          /\ IF Len(transactions) = 0
             THEN /\ analysisResults' = <<>>
                  /\ progress' = [progress EXCEPT !.total = "0"]
                  /\ finishAnalysis(r, <<>>)
             ELSE processRow(r, transactions, <<>>,
                             [progress EXCEPT !.total = numToString(Len(transactions))])
    /\ lastAlert' = ""
    /\ UNCHANGED <<page, tz, uploadedFile, analyzeBtnDisabled, cardHidden,
                   started, pureVars, viewVars>>

\* the FileReader fails, as it can for any file that was moved or changed
\* after it was picked: script.js:352-360 sets no onerror handler
readerError(r) ==
    /\ page = "upload"
    /\ runs[r].pc = "reading"
    /\ runs' = [runs EXCEPT ![r].pc = "failed"]
    /\ lastAlert' = ""
    /\ UNCHANGED <<page, tz, uploadedFile, csvData, analysisResults,
                   analyzeBtnDisabled, cardHidden, localStorage, pendingNav,
                   clock, started, progress, pureVars,
                   viewVars>>

\* script.js:418 resolves: the next iteration of 386-419, or 421-425
loopStep(r) ==
    /\ page = "upload"
    /\ runs[r].pc = "awaiting"
    /\ IF runs[r].i < Len(runs[r].transactions)
       THEN processRow(r, runs[r].transactions, analysisResults, progress)
       ELSE /\ finishAnalysis(r, analysisResults)
            /\ UNCHANGED <<analysisResults, progress>>
    /\ lastAlert' = ""
    /\ UNCHANGED <<page, tz, uploadedFile, csvData, analyzeBtnDisabled,
                   cardHidden, started, pureVars, viewVars>>

\* localStorage.getItem(key): the text, or null
getItem(entry) == IF entry.present THEN Str(entry.value) ELSE Null

\* script.js:790-794
clearAndRedirect ==
    /\ localStorage' = [results |-> Absent, timestamp |-> Absent]
    /\ pendingNav' = "upload"
    /\ window' = EmptyWindow
    /\ dom' = emptyDocument
    /\ threw' = ""

\* window.analysisTimestamp || new Date(), a reading of the clock within the
\* minute that toISOString gives
headerTime(timestamp, t) == IF truthy(timestamp) THEN timestamp ELSE Str(toISOString(t))

\* script.js:798-801 with displayResults, 462-486: a TypeError at 470 leaves
\* the cards, the alert and the table as they were
displayResults(results, timestamp) ==
    /\ window' = [analysisResults |-> results, analysisTimestamp |-> timestamp]
    /\ IF rendersWithoutError(results)
       THEN /\ dom' = [dateTime |-> formatDateTime(headerTime(timestamp, clock), tz),
                       cards |-> summaryCards(results),
                       statusAlert |-> displayStatusAlert(countStatus(results, {"fraud"}),
                                                          Len(results.items)),
                       tableRows |-> populateResultsTable(results, tz),
                       noResultsHidden |-> TRUE]
            /\ threw' = ""
       ELSE /\ dom' = [emptyDocument EXCEPT
                         !.dateTime = formatDateTime(headerTime(timestamp, clock), tz)]
            /\ threw' = "TypeError"
    /\ pendingNav' = "none"
    /\ UNCHANGED localStorage

\* results.length === 0
isZero(v) == v.t = "number" /\ ~truthy(v)

\* script.js:788 without its test of the length
withResultsNoLength(results) ==
    IF ~truthy(results)
    THEN clearAndRedirect
    ELSE displayResults(results, getItem(localStorage.timestamp))

\* script.js:788-801
withResults(results) ==
    IF ~truthy(results) \/ isZero(getProp(results, "length"))
    THEN clearAndRedirect
    ELSE displayResults(results, getItem(localStorage.timestamp))

\* script.js:785: JSON.parse throws a SyntaxError that nothing catches
afterParse(r) ==
    IF r.ok THEN withResults(r.v)
    ELSE /\ threw' = "SyntaxError"
         /\ window' = EmptyWindow
         /\ dom' = emptyDocument
         /\ pendingNav' = "none"
         /\ UNCHANGED localStorage

\* script.js:776-802
initResultsPage ==
    IF truthy(getItem(localStorage.results))
    THEN afterParse(JSONparse(localStorage.results.value))
    ELSE withResults(Null)

\* a document is loaded: the globals of script.js:11-14 start afresh and the
\* DOMContentLoaded handler of script.js:727-735 runs
pageLoad(p) ==
    /\ page' = p
    /\ uploadedFile' = NoFile
    /\ csvData' = <<>>
    /\ analysisResults' = <<>>
    /\ analyzeBtnDisabled' = TRUE
    /\ cardHidden' = FALSE
    /\ progress' = NoProgress
    /\ runs' = <<>>
    /\ lastAlert' = ""
    /\ currentFilter' = "all"
    /\ searchBox' = ""
    /\ modal' = NoModal
    /\ download' = NoDownload
    /\ IF p = "results"
       THEN initResultsPage
       ELSE /\ pendingNav' = "none"
            /\ window' = EmptyWindow
            /\ dom' = emptyDocument
            /\ threw' = ""
            /\ UNCHANGED localStorage
    /\ theme' = loadedTheme(darkMode)
    /\ UNCHANGED <<tz, clock, started, darkMode, pureVars>>

\* what the handlers of the results document leave alone
uploadVars ==
    <<uploadedFile, csvData, analysisResults, analyzeBtnDisabled, cardHidden,
      progress, runs, started>>

\* row.style.display of every row: '' for the rows of visible, 'none' for
\* the others
setDisplay(rows, visible) ==
    [n \in 1..Len(rows) |-> [rows[n] EXCEPT !.hidden = (n \notin visible)]]

\* a filter whose 'legitimate' mode leaves the warnings out
showsUnderStrict(filter, status) ==
    \/ filter = "all"
    \/ filter = status

\* script.js:580-591
showsUnder(filter, status) ==
    \/ filter = "all"
    \/ filter = "fraud" /\ status = "fraud"
    \/ filter = "legitimate" /\ status \in {"legitimate", "warning"}

filterVisible(rows, filter) ==
    { n \in 1..Len(rows) : showsUnder(filter, rows[n].status) }

\* as showOnly, but #noResults once shown stays shown
showOnlyNeverHiding(visible) ==
    dom' = [dom EXCEPT !.tableRows = setDisplay(@, visible),
                       !.noResultsHidden = IF visible = {} THEN FALSE ELSE @]

\* the rows of visible are shown, the others hidden, and #noResults is shown
\* when visibleCount is 0: script.js:593-600 and 846-851
showOnly(visible) ==
    dom' = [dom EXCEPT !.tableRows = setDisplay(@, visible),
                       !.noResultsHidden = (visible # {})]

\* a filter that keeps in window.analysisResults only what it shows
filterResultsDropping(filter) ==
    /\ page = "results"
    /\ currentFilter' = filter
    /\ showOnly(filterVisible(dom.tableRows, filter))
    /\ window' = [window EXCEPT
                    !.analysisResults =
                       IF @.t = "array"
                       THEN Arr(SelectSeq(@.items,
                                LAMBDA r : showsUnder(filter, toText(getProp(r, "status")))))
                       ELSE @]
    /\ lastAlert' = ""
    /\ threw' = ""
    /\ download' = NoDownload
    /\ UNCHANGED <<page, tz, uploadVars, localStorage, pendingNav, clock,
                   searchBox, modal, pureVars,
                   darkVars>>

\* script.js:570-601
filterResults(filter) ==
    /\ page = "results"
    /\ currentFilter' = filter
    /\ showOnly(filterVisible(dom.tableRows, filter))
    /\ lastAlert' = ""
    /\ threw' = ""
    /\ download' = NoDownload
    /\ UNCHANGED <<page, tz, uploadVars, localStorage, pendingNav, clock, window,
                   searchBox, modal, pureVars,
                   darkVars>>

\* a search that compares the text of the row as it is written
searchVisibleExact(rows, searchTerm) ==
    { n \in 1..Len(rows) : searchTerm = "" \/ includes(rows[n].text, searchTerm) }

\* script.js:814, 828-834
searchVisible(rows, searchTerm) ==
    { n \in 1..Len(rows) :
        searchTerm = "" \/ includes(toLowerCase(rows[n].text), searchTerm) }

\* the user types value into #searchBox, which calls script.js:808-852
searchTransactions(value) ==
    /\ page = "results"
    /\ searchBox' = value
    /\ lastAlert' = ""
    /\ threw' = ""
    /\ download' = NoDownload
    /\ UNCHANGED <<page, tz, uploadVars, localStorage, pendingNav, clock, window,
                   currentFilter, modal, pureVars,
                   darkVars>>
    /\ showOnly(searchVisible(dom.tableRows, trim(toLowerCase(value))))

\* results[index] of a value that is not null or undefined
element(results, index) ==
    CASE results.t = "array" ->
            (IF index < Len(results.items) THEN results.items[index + 1] ELSE Undefined)
      [] results.t = "string" ->
            (IF index < Len(results.s) THEN Str(CharAt(results.s, index + 1)) ELSE Undefined)
      [] results.t = "object" -> getProp(results, numToString(index))
      [] OTHER -> Undefined

\* transaction.riskScore >= k, for a score that is a number
atLeast(score, k) == score.t = "number" /\ score.n >= k

\* transaction.indicators && transaction.indicators.length > 0
hasIndicators(indicators) ==
    /\ truthy(indicators)
    /\ getProp(indicators, "length").t = "number"
    /\ getProp(indicators, "length").n > 0

\* script.js:613-647: the fields of the modal
modalFields(transaction, tzv) ==
    [NoModal EXCEPT
       !.transactionId = textOr(getProp(transaction, "transaction_id"), "N/A"),
       !.amount = formatCurrency(amountValue(transaction)),
       !.merchant = textOr(getProp(transaction, "merchant"), "N/A"),
       !.card = textOr(getProp(transaction, "card_number"), "N/A"),
       !.location = textOr(getProp(transaction, "location"), "N/A"),
       !.timestamp = formatDateTime(getProp(transaction, "timestamp"), tzv),
       !.riskScore = toText(getProp(transaction, "riskScore")) \o "%",
       !.riskBar = IF atLeast(getProp(transaction, "riskScore"), 70) THEN "bg-danger"
                   ELSE IF atLeast(getProp(transaction, "riskScore"), 50) THEN "bg-warning"
                   ELSE "bg-success",
       !.statusClass = statusLabel(getProp(transaction, "status"),
                                   "badge-danger", "badge-warning", "badge-success"),
       !.statusText = statusLabel(getProp(transaction, "status"),
                                  "Fraud Detected", "Warning", "Legitimate")]

\* script.js:650-661: one <li> per indicator, or the line that says none
indicatorItems(indicators) ==
    IF hasIndicators(indicators)
    THEN [n \in 1..Len(indicators.items) |->
            [className |-> "text-danger", text |-> toText(indicators.items[n])]]
    ELSE << [className |-> "text-success", text |-> "No fraud indicators detected"] >>

\* script.js:611-665 for a transaction that is there; forEach of a value
\* that is no array is a TypeError at 651, past the fields and before show()
showDetails(transaction, indicators) ==
    IF hasIndicators(indicators) /\ indicators.t # "array"
    THEN /\ modal' = [modalFields(transaction, tz) EXCEPT !.shown = modal.shown]
         /\ threw' = "TypeError"
    ELSE /\ modal' = [modalFields(transaction, tz) EXCEPT
                        !.indicators = indicatorItems(indicators),
                        !.shown = TRUE]
         /\ threw' = ""

\* script.js:607-665, from the button of the row with this index
viewTransactionDetails(index) ==
    /\ page = "results"
    /\ index \in 0..(Len(dom.tableRows) - 1)
    /\ IF ~truthy(window.analysisResults)
       THEN UNCHANGED modal /\ threw' = ""
       ELSE IF ~truthy(element(window.analysisResults, index))
       THEN UNCHANGED modal /\ threw' = ""
       ELSE showDetails(element(window.analysisResults, index),
                        getProp(element(window.analysisResults, index), "indicators"))
    /\ lastAlert' = ""
    /\ download' = NoDownload
    /\ UNCHANGED <<page, tz, uploadVars, localStorage, pendingNav, clock, window,
                   currentFilter, searchBox, dom, pureVars,
                   darkVars>>

csvHeaders ==
    <<"Transaction ID", "Amount", "Merchant", "Location", "Timestamp",
      "Card Number", "Risk Score", "Status">>

csvFields ==
    <<"transaction_id", "amount", "merchant", "location", "timestamp",
      "card_number", "riskScore", "status">>

\* an export that leaves out the fields that are empty
csvLineSkippingEmpty(transaction) ==
    joinWith(SelectSeq([n \in 1..Len(csvFields) |->
                          textOr(getProp(transaction, csvFields[n]), "")],
                       LAMBDA text : text # ""),
             ",")

\* script.js:694-706: transaction.field || '' for every field, joined
csvLine(transaction) ==
    joinWith([n \in 1..Len(csvFields) |-> textOr(getProp(transaction, csvFields[n]), "")],
             ",")

\* an export that writes the rows the table shows
exportToCSVVisible(results) ==
    joinWith(<<joinWith(csvHeaders, ",")>>
             \o [n \in 1..Len(SelectSeq([k \in 1..Len(results.items) |-> k],
                                        LAMBDA k : k > Len(dom.tableRows)
                                                   \/ ~dom.tableRows[k].hidden)) |->
                   csvLine(results.items[
                       SelectSeq([k \in 1..Len(results.items) |-> k],
                                 LAMBDA k : k > Len(dom.tableRows)
                                            \/ ~dom.tableRows[k].hidden)[n]])], "\n")

\* script.js:690-718: the text of the Blob that is downloaded
exportToCSV(results) ==
    joinWith(<<joinWith(csvHeaders, ",")>>
             \o [n \in 1..Len(results.items) |-> csvLine(results.items[n])], "\n")

pdfNotice ==
    "PDF export functionality would be implemented with a PDF library in production.\n"
    \o "For now, please use the browser's print function (Ctrl+P) to save as PDF."

\* script.js:671-685; window.print() of the pdf branch changes nothing here
exportResults(format) ==
    /\ page = "results"
    /\ IF ~truthy(window.analysisResults)
          \/ isZero(getProp(window.analysisResults, "length"))
       THEN /\ lastAlert' = "No results to export"
            /\ download' = NoDownload
            /\ threw' = ""
       ELSE IF format = "csv"
       THEN /\ lastAlert' = ""
            /\ IF rendersWithoutError(window.analysisResults)
               THEN /\ download' = [present |-> TRUE,
                                    content |-> exportToCSV(window.analysisResults)]
                    /\ threw' = ""
               ELSE /\ download' = NoDownload
                    /\ threw' = "TypeError"
       ELSE /\ lastAlert' = IF format = "pdf" THEN pdfNotice ELSE ""
            /\ download' = NoDownload
            /\ threw' = ""
    /\ UNCHANGED <<page, tz, uploadVars, localStorage, pendingNav, clock, window,
                   currentFilter, searchBox, dom, modal, pureVars,
                   darkVars>>

\* a toggle that changes the class and saves nothing
toggleDarkModeUnsaved ==
    /\ theme' = [theme EXCEPT !.body = ~theme.body,
                              !.icon = IF ~theme.body THEN "bi bi-sun-fill"
                                       ELSE "bi bi-moon-stars-fill"]
    /\ lastAlert' = ""
    /\ download' = NoDownload
    /\ threw' = ""
    /\ UNCHANGED <<page, tz, uploadVars, localStorage, pendingNav, clock, window,
                   currentFilter, searchBox, dom, modal, darkMode, pureVars>>

\* script.js:864-880 with updateDarkModeButton, 885-894; from the button or
\* from Ctrl+D (1027-1034), on either page
toggleDarkMode ==
    /\ theme' = [theme EXCEPT !.body = ~theme.body,
                              !.icon = IF ~theme.body THEN "bi bi-sun-fill"
                                       ELSE "bi bi-moon-stars-fill"]
    /\ darkMode' = [present |-> TRUE,
                    value |-> IF ~theme.body THEN "enabled" ELSE "disabled"]
    /\ lastAlert' = ""
    /\ download' = NoDownload
    /\ threw' = ""
    /\ UNCHANGED <<page, tz, uploadVars, localStorage, pendingNav, clock, window,
                   currentFilter, searchBox, dom, modal, pureVars>>

\* a requested navigation happens: script.js:423-425 and 793
navigate ==
    /\ pendingNav # "none"
    /\ pageLoad(pendingNav)

\* the user opens or reloads a page
userOpens(p) == pageLoad(p)

Next ==
    \/ \E f \in Files : handleFileSelection(f)
    \/ clearFile
    \/ analyzeTransactions
    \/ \E r \in DOMAIN runs : readerOnload(r)
    \/ \E r \in DOMAIN runs : readerError(r)
    \/ \E r \in DOMAIN runs : loopStep(r)
    \/ navigate
    \/ \E p \in {"upload", "results"} : userOpens(p)

Spec == InitApp /\ [][Next]_vars

-----------------------------------------------------------------------------
(* The results page over what the store may hold when it is opened *)

\* the longest stored Result Set
MaxRecords == 2

\* three records of the pipeline, one of each status
SampleRecords ==
    { enrich(parseCSV(TwoRowsText)[1], 40, 2, 0, drawsFor(1), 2),
      enrich(parseCSV(TwoRowsText)[1], 0, 2, 0, drawsFor(0), 2),
      enrich(parseCSV(TwoRowsText)[2], 0, 2, 0, drawsFor(0), 2) }

ResultSets == UNION { [1..n -> SampleRecords] : n \in 0..MaxRecords }

\* texts that are no Result Set of the pipeline
OtherTexts ==
    { "", "null", "{}", "5", "\"abc\"", "[1]", "[null]", "[{\"status\":", "not json" }

StoredTexts == { JSONstringify(results) : results \in ResultSets } \cup OtherTexts

Stored(text) == [present |-> TRUE, value |-> text]

\* what the two keys of the results may hold when a page is opened
StoredStates ==
    { [results |-> Stored(text), timestamp |-> Stored(toISOString(0))] :
        text \in StoredTexts }
    \cup { [results |-> Absent, timestamp |-> Absent],
           [results |-> Absent, timestamp |-> Stored(toISOString(0))],
           [results |-> Stored(JSONstringify(<<>>)), timestamp |-> Absent] }
    \cup { [results |-> Stored(JSONstringify(results)), timestamp |-> Absent] :
             results \in [1..1 -> SampleRecords] }

InitResults ==
    /\ page = "upload"
    /\ uploadedFile = NoFile
    /\ csvData = <<>>
    /\ analysisResults = <<>>
    /\ analyzeBtnDisabled = TRUE
    /\ cardHidden = FALSE
    /\ progress = NoProgress
    /\ runs = <<>>
    /\ localStorage \in StoredStates
    /\ pendingNav = "none"
    /\ lastAlert = ""
    /\ clock = 0
    /\ started = 0
    /\ ViewInit
    /\ tz \in Zones
    /\ PureInit

\* the values the filter buttons and other callers pass
Filters == {"all", "fraud", "legitimate", "warning"}

\* what the user types into the search box
SearchTexts == {"", "fraud", " PARIS ", "zzz"}

NextResults ==
    \/ \E p \in {"upload", "results"} : userOpens(p)
    \/ navigate
    \/ \E filter \in Filters : filterResults(filter)
    \/ \E value \in SearchTexts : searchTransactions(value)
    \/ \E index \in 0..(MaxRecords - 1) : viewTransactionDetails(index)
    \/ \E format \in {"csv", "pdf"} : exportResults(format)

SpecResults == InitResults /\ [][NextResults]_vars

\* the threshold table of the classifier
TableStatus(score) ==
    CASE score >= 70 -> "fraud"
      [] score >= 50 /\ score < 70 -> "warning"
      [] score < 50 -> "legitimate"

TableLevel(score) ==
    CASE score >= 70 -> "High"
      [] score >= 50 /\ score < 70 -> "Medium"
      [] score < 50 -> "Low"

\* C3: every record of analysisResults has the status and the risk level
\* that the threshold table gives for its own riskScore.
C3_StatusFromScore ==
    \A n \in 1..Len(analysisResults) :
        /\ analysisResults[n].status = TableStatus(analysisResults[n].riskScore)
        /\ analysisResults[n].riskLevel = TableLevel(analysisResults[n].riskScore)

C3_Witness ==
    /\ Len(analysisResults) = 2
    /\ analysisResults[1].status = "fraud"
    /\ analysisResults[2].status = "legitimate"
    /\ \E r \in DOMAIN runs : runs[r].pc = "done"

\* C8: after k iterations of a run the accumulated analysisResults is the
\* records of its rows 1..k in order, and all n of them once it is complete.
C8_InOrder ==
    \A r \in DOMAIN runs :
        runs[r].pc \in {"awaiting", "done"} =>
            /\ Len(analysisResults) = runs[r].i
            /\ \A n \in 1..runs[r].i :
                   analysisResults[n].row = runs[r].transactions[n]
            /\ (runs[r].pc = "done" => runs[r].i = Len(runs[r].transactions))

\* C9: at most one run is inside performAnalysis at any time.
C9_NoConcurrentRuns ==
    Cardinality({ r \in DOMAIN runs : runs[r].pc = "awaiting" }) <= 1

\* C10: the event that ends the reading of a file with no data rows, or of
\* a file that cannot be read, shows an error, stores nothing and requests
\* no navigation to the results page.
C10_ZeroRowsRejected ==
    [][\A r \in DOMAIN runs :
          (/\ runs[r].pc = "reading"
           /\ r \in DOMAIN runs'
           /\ runs'[r].pc \in {"done", "failed"}
           /\ Len(runs'[r].transactions) = 0)
          => (/\ lastAlert' # ""
              /\ localStorage' = localStorage
              /\ pendingNav' = pendingNav)]_vars

\* the texts of the records of the first k rows of transactions, over every
\* draw
PrefixTexts(transactions, k) ==
    { JSONjoin([j \in 1..k |-> jsonOf[recordOf[<<transactions[j], d[j], tz>>]]]) :
        d \in [1..k -> 0..(RandDen - 1)] }

\* C11: in every state between events the results entry and the timestamp
\* entry are both present or both absent, and the results entry never holds
\* a proper prefix (the records of the first k rows, 0 < k < n) of the Result
\* Set of a run over n rows
C11_NeverPartial ==
    /\ localStorage.results.present <=> localStorage.timestamp.present
    /\ \A r \in DOMAIN runs :
         \A k \in 1..(Len(runs[r].transactions) - 1) :
            ~(/\ localStorage.results.present
              /\ localStorage.results.value \in PrefixTexts(runs[r].transactions, k))

\* the object holds the fields of the row as they were parsed
SameRow(object, row) ==
    \A n \in 1..Len(row) :
        isComputedKey(row[n].k) \/ getProp(object, row[n].k) = Str(row[n].v)

\* the value is the sequence of the records of these rows, in order
RecordsOf(value, transactions) ==
    /\ value.t = "array"
    /\ Len(value.items) = Len(transactions)
    /\ \A j \in 1..Len(transactions) : SameRow(value.items[j], transactions[j])

\* C12: when a run over at least one row has completed and the results page
\* is loaded, the page obtains exactly that run's records in their order and
\* does not redirect back to the upload page
C12_HandOff ==
    [][(page = "upload" /\ pendingNav = "results" /\ page' = "results")
       => \A r \in DOMAIN runs :
             (runs[r].pc = "done" /\ Len(runs[r].transactions) >= 1)
             => (/\ RecordsOf(window'.analysisResults, runs[r].transactions)
                 /\ pendingNav' = "none")]_vars

NothingStored == [results |-> Absent, timestamp |-> Absent]

\* C13: when the results page is loaded and the results entry is absent or
\* holds the empty Result Set, both entries are removed, the upload page is
\* requested and nothing is rendered
C13_NoResultsRedirect ==
    [][((~localStorage.results.present
           \/ localStorage.results.value = JSONstringify(<<>>))
        /\ pageLoad("results"))
       => (/\ localStorage' = NothingStored
           /\ pendingNav' = "upload"
           /\ dom' = emptyDocument
           /\ window' = EmptyWindow
           /\ threw' = "")]_vars

\* the results page has just been loaded with no Result Set to show
C13_Witness ==
    /\ page = "results"
    /\ pendingNav = "upload"
    /\ localStorage = NothingStored
    /\ dom = emptyDocument
    /\ currentFilter = "all"

\* a text that is not JSON, or JSON that is not a sequence of objects
Malformed(text) ==
    \/ ~JSONparse(text).ok
    \/ JSONparse(text).v.t # "array"
    \/ \E n \in 1..Len(JSONparse(text).v.items) : JSONparse(text).v.items[n].t # "object"

\* C14: when the results page is loaded and the results entry is malformed,
\* both entries are removed and the upload page is requested, with no
\* exception and nothing rendered
C14_MalformedRedirect ==
    [][(/\ localStorage.results.present
        /\ Malformed(localStorage.results.value)
        /\ pageLoad("results"))
       => (/\ localStorage' = NothingStored
           /\ pendingNav' = "upload"
           /\ dom' = emptyDocument
           /\ threw' = "")]_vars

\* a step of one of the four operations of the results page
ResultsViewOperation ==
    \/ \E filter \in Filters : filterResults(filter)
    \/ \E value \in SearchTexts : searchTransactions(value)
    \/ \E index \in 0..(MaxRecords - 1) : viewTransactionDetails(index)
    \/ \E format \in {"csv", "pdf"} : exportResults(format)

\* C15: filterResults, searchTransactions, viewTransactionDetails and
\* exportResults change neither the Result Set that the page holds nor
\* either persisted entry
C15_ReadOnly ==
    [][ResultsViewOperation
       => (/\ window'.analysisResults = window.analysisResults
           /\ localStorage' = localStorage)]_vars

\* the four operations have acted on a stored Result Set of several records
C15_Witness ==
    /\ page = "results"
    /\ localStorage.results.present
    /\ window.analysisResults.t = "array"
    /\ Len(window.analysisResults.items) > 1
    /\ currentFilter = "fraud"
    /\ searchBox = " PARIS "
    /\ modal.shown
    /\ download.present

\* the row passes the active status filter and holds the term of the box
PassesBoth(row) ==
    /\ showsUnder(currentFilter, row.status)
    /\ \/ trim(toLowerCase(searchBox)) = ""
       \/ includes(toLowerCase(row.text), trim(toLowerCase(searchBox)))

\* C16: after any sequence of filterResults and searchTransactions calls a
\* row is visible iff it passes the active status filter and its text
\* contains the current search term
C16_Compose ==
    \A n \in 1..Len(dom.tableRows) :
        ~dom.tableRows[n].hidden <=> PassesBoth(dom.tableRows[n])

\* C17: immediately after filterResults(f), with f = 'all' every row is
\* visible, with f = 'fraud' exactly the rows of status 'fraud', with f =
\* 'legitimate' exactly the rows of status 'legitimate' or 'warning'; no
\* value of f shows the rows of status 'warning' and only them when there
\* are rows of another status
C17_FilterModes ==
    [][\A f \in Filters :
          filterResults(f)
          => /\ \A n \in 1..Len(dom'.tableRows) :
                  ~dom'.tableRows[n].hidden <=>
                     \/ f = "all"
                     \/ f = "fraud" /\ dom.tableRows[n].status = "fraud"
                     \/ f = "legitimate"
                        /\ dom.tableRows[n].status \in {"legitimate", "warning"}
             /\ (\E n \in 1..Len(dom'.tableRows) :
                     /\ ~dom'.tableRows[n].hidden
                     /\ dom'.tableRows[n].status = "warning")
                => \A n \in 1..Len(dom'.tableRows) :
                      dom'.tableRows[n].status = "legitimate"
                      => ~dom'.tableRows[n].hidden]_vars

\* the 'legitimate' filter has just hidden a fraud row and left a warning
\* row visible
C17_Witness ==
    /\ page = "results"
    /\ currentFilter = "legitimate"
    /\ searchBox = ""
    /\ \E n \in 1..Len(dom.tableRows) :
          dom.tableRows[n].status = "fraud" /\ dom.tableRows[n].hidden
    /\ \E n \in 1..Len(dom.tableRows) :
          dom.tableRows[n].status = "warning" /\ ~dom.tableRows[n].hidden

\* term occurs in text when the letters of text are taken in lower case
OccursIgnoringCase(text, term) ==
    \E i \in 0..(Len(text) - Len(term)) :
        \A j \in 1..Len(term) : lowerChar(CharAt(text, i + j)) = CharAt(term, j)

\* C18: immediately after searchTransactions with the term t, which is the
\* text of the box in lower case and trimmed, a row is visible iff t is
\* empty or the row's text in lower case contains t
C18_SearchMatches ==
    [][\A value \in SearchTexts :
          searchTransactions(value)
          => \A n \in 1..Len(dom'.tableRows) :
                ~dom'.tableRows[n].hidden <=>
                   \/ trim(toLowerCase(value)) = ""
                   \/ OccursIgnoringCase(dom.tableRows[n].text,
                                         trim(toLowerCase(value)))]_vars

\* a search for " PARIS " has just left the row of Paris visible and hidden
\* another row
C18_Witness ==
    /\ page = "results"
    /\ searchBox = " PARIS "
    /\ \E n \in 1..Len(dom.tableRows) :
          ~dom.tableRows[n].hidden /\ includes(dom.tableRows[n].text, "Paris")
    /\ \E n \in 1..Len(dom.tableRows) : dom.tableRows[n].hidden

\* a step of filterResults or of searchTransactions
FilterOrSearch ==
    \/ \E filter \in Filters : filterResults(filter)
    \/ \E value \in SearchTexts : searchTransactions(value)

\* C19: after every call of filterResults or searchTransactions, the 'no
\* results' indicator is shown iff no row of the table is visible
C19_NoResultsIndicator ==
    [][FilterOrSearch
       => (~dom'.noResultsHidden
           <=> \A n \in 1..Len(dom'.tableRows) : dom'.tableRows[n].hidden)]_vars

\* a search has hidden every row of a table and the indicator is shown
C19_Witness ==
    /\ page = "results"
    /\ searchBox = "zzz"
    /\ Len(dom.tableRows) > 1
    /\ \A n \in 1..Len(dom.tableRows) : dom.tableRows[n].hidden
    /\ ~dom.noResultsHidden

-----------------------------------------------------------------------------
(* The summary of displayResults as a function of the Result Set *)

\* a record as far as the summary reads it
withStatus(status) == Obj(<< [k |-> "status", v |-> Str(status)] >>)

SummaryInputs ==
    { Arr(results) :
        results \in UNION { [1..n -> { withStatus(status) :
                                        status \in {"fraud", "warning", "legitimate"} }
                                     \cup { Obj(<<>>) }] :
                            n \in 0..MaxLines } }

InitSummary ==
    /\ AppInit
    /\ tz \in Zones
    /\ fop = "none"
    /\ fin \in SummaryInputs
    /\ fout = <<>>

ApplySummary ==
    /\ fop = "none"
    /\ fop' = "summary"
    /\ fout' = summaryCards(fin)
    /\ UNCHANGED <<fin, tz, appVars, viewVars>>

NextSummary == ApplySummary

SpecSummary == InitSummary /\ [][NextSummary]_vars

\* the records of fin whose status is one of statuses
Having(statuses) ==
    { n \in 1..Len(fin.items) :
        /\ fin.items[n].items # <<>>
        /\ fin.items[n].items[1].v.s \in statuses }

\* the texts of a rate of fraud out of total: the percentage to the nearest
\* tenth, and 0% for no records at all
RateTexts(fraud, total) ==
    IF total = 0 THEN {"0%", "0.0%"}
    ELSE { numToString(k \div 10) \o "." \o numToString(k % 10) \o "%" :
             k \in { t \in 0..1000 : 2 * (1000 * fraud - t * total) <= total
                                     /\ 2 * (t * total - 1000 * fraud) <= total } }

\* C20: the summary shows the number of records, the number with status
\* 'fraud', the number with status 'legitimate' or 'warning' and the rate of
\* fraud as a percentage with one decimal, which is 0% for no records
C20_Summary ==
    fop = "summary"
    => /\ fout.totalTransactions = numToString(Len(fin.items))
       /\ fout.fraudCount = numToString(Cardinality(Having({"fraud"})))
       /\ fout.legitimateCount = numToString(Cardinality(Having({"legitimate", "warning"})))
       /\ fout.fraudRate \in RateTexts(Cardinality(Having({"fraud"})), Len(fin.items))

\* the same for the Result Sets that have a record
C20_SummaryOfRecords ==
    (fop = "summary" /\ Len(fin.items) > 0) => C20_Summary

-----------------------------------------------------------------------------
(* Export, script.js:671-718 *)

\* a loaded Result Set: an array of at least one record
IsResultSet(value) ==
    /\ value.t = "array"
    /\ Len(value.items) > 0
    /\ \A n \in 1..Len(value.items) : value.items[n].t = "object"

\* what a record holds under a name, as text; nothing for a name it lacks
Column(record, name) ==
    IF hasField(record.items, name) THEN rowGet(record.items, name).s ELSE ""

ExportHeader ==
    "Transaction ID,Amount,Merchant,Location,Timestamp,Card Number,Risk Score,Status"

\* the lines of a text are the header and the records' lines, in order; the
\* Risk Score column of a record whose score is 0 is the matter of C30
LinesOfRecords(content, records) ==
    /\ Len(split(content, "\n")) = 1 + Len(records)
    /\ split(content, "\n")[1] = ExportHeader
    /\ \A n \in 1..Len(records) :
          /\ Len(split(split(content, "\n")[n + 1], ",")) = Len(csvFields)
          /\ \A k \in 1..Len(csvFields) :
                \/ csvFields[k] = "riskScore" /\ Column(records[n], "riskScore") = "0"
                \/ split(split(content, "\n")[n + 1], ",")[k]
                      = Column(records[n], csvFields[k])

\* C21: exportResults('csv') writes the header line and one comma-joined
\* line for every record of the loaded Result Set, in its order, whatever the
\* status filter and the search box hold; with no Result Set, or an empty
\* one, nothing is downloaded.
C21_ExportWholeSet ==
    [][exportResults("csv") =>
          /\ IsResultSet(window.analysisResults) =>
                /\ download'.present
                /\ LinesOfRecords(download'.content, window.analysisResults.items)
          /\ (\/ ~truthy(window.analysisResults)
              \/ isZero(getProp(window.analysisResults, "length"))) =>
                ~download'.present]_vars

\* two records exported while the fraud filter hides one of them
C21_Witness ==
    /\ page = "results"
    /\ download.present
    /\ currentFilter = "fraud"
    /\ IsResultSet(window.analysisResults)
    /\ Len(window.analysisResults.items) = 2
    /\ \E n \in 1..Len(dom.tableRows) : dom.tableRows[n].hidden
    /\ \E n \in 1..Len(dom.tableRows) : ~dom.tableRows[n].hidden

\* nothing to export: the alert and no download
C21_WitnessNothing ==
    /\ page = "results"
    /\ ~truthy(window.analysisResults)
    /\ lastAlert = "No results to export"

-----------------------------------------------------------------------------
(* A file with the six standard columns analysed, stored, loaded by the     *)
(* results page, exported and parsed again: script.js:25-44, 405-415,       *)
(* 764-786, 690-718                                                         *)

StandardHeaders ==
    { "transaction_id,amount,merchant,location,timestamp,card_number",
      "amount,transaction_id,note,merchant,location,timestamp,card_number" }

StandardLines ==
    { "TXN0001,6000,Amazon,Unknown,2024-01-01T03:00:00Z,****1234",
      "TXN0002,50,Cafe,Paris,2024-01-01T12:00:00Z,****5678",
      "TXN0003,,Shop \"A\",Lagos,,",
      " T4 , 1500 , M , Russia , 2024-01-01T04:10 , 9 " }

ExportInputs ==
    { [content |-> joinLines(<<header>> \o lines, "\n"), jitter |-> k] :
        header \in StandardHeaders,
        lines \in SeqsUpTo(StandardLines, MaxLines),
        k \in 0..(RandDen - 1) }

\* the records performAnalysis pushes for these rows when every
\* Math.random() returns k/RandDen
recordsOf(transactions, k) ==
    [n \in 1..Len(transactions) |->
        enrich(transactions[n], 40 * k, RandDen, 0, drawsFor(k), RandDen)]

\* what the export of these records is, and what the parser reads from it
exported(records, results) ==
    [records |-> records,
     text |-> exportToCSV(results),
     rows |-> parseCSV(exportToCSV(results))]

InitExport ==
    /\ AppInit
    /\ tz = 0
    /\ fop = "none"
    /\ fin \in ExportInputs
    /\ fout = <<>>

ApplyExport ==
    /\ fop = "none"
    /\ fop' = "exportToCSV"
    /\ fout' = exported(recordsOf(parseCSV(fin.content), fin.jitter),
                        JSONparse(JSONstringify(
                            recordsOf(parseCSV(fin.content), fin.jitter))).v)
    /\ UNCHANGED <<fin, tz, appVars, viewVars>>

NextExport == ApplyExport

SpecExport == InitExport /\ [][NextExport]_vars

StandardColumns ==
    <<"transaction_id", "amount", "merchant", "location", "timestamp", "card_number">>

\* the title the export gives to a standard column
TitleOf(name) ==
    CASE name = "transaction_id" -> "Transaction ID"
      [] name = "amount" -> "Amount"
      [] name = "merchant" -> "Merchant"
      [] name = "location" -> "Location"
      [] name = "timestamp" -> "Timestamp"
      [] name = "card_number" -> "Card Number"

\* the rows read back hold, for every row of the file and in its order, the
\* value of each standard column under the name given by naming
ReadBack(naming(_)) ==
    /\ Len(fout.rows) = Len(parseCSV(fin.content))
    /\ \A n \in 1..Len(fout.rows) : \A k \in 1..Len(StandardColumns) :
          /\ hasField(fout.rows[n], naming(StandardColumns[k]))
          /\ rowGet(fout.rows[n], naming(StandardColumns[k]))
                = rowGet(parseCSV(fin.content)[n], StandardColumns[k])

SameName(name) == name

\* C22: exporting the Result Set of a file with the six standard columns and
\* parsing the export again gives, for every row, the original transaction
\* fields (the Risk Score and Status columns aside).
C22_RoundTrip == fop = "exportToCSV" => ReadBack(SameName)

\* C22 as it holds: the values come back row by row, each under the title
\* the export gives its column, not under the column's original name
C22_RoundTripByTitle == fop = "exportToCSV" => ReadBack(TitleOf)

\* the columns of the exported line of record n
ExportedColumns(n) == split(split(fout.text, "\n")[n + 1], ",")

\* C30: the exported line of every record, also of one whose riskScore is 0,
\* has the record's riskScore in the Risk Score column and its status in the
\* Status column.
C30_ScoreAndStatus ==
    fop = "exportToCSV" =>
       \A n \in 1..Len(fout.records) :
          /\ Len(ExportedColumns(n)) = 8
          /\ ExportedColumns(n)[7] = numToString(fout.records[n].riskScore)
          /\ ExportedColumns(n)[8] = fout.records[n].status

\* the same for the records whose riskScore is not 0
C30_NonZeroScores ==
    fop = "exportToCSV" =>
       \A n \in 1..Len(fout.records) :
          fout.records[n].riskScore # 0 =>
             /\ Len(ExportedColumns(n)) = 8
             /\ ExportedColumns(n)[7] = numToString(fout.records[n].riskScore)
             /\ ExportedColumns(n)[8] = fout.records[n].status

\* three rows came back, one with empty fields and one whose fields were
\* written with blanks around them
C22_Witness ==
    /\ fop = "exportToCSV"
    /\ Len(fout.rows) = 3
    /\ \E n \in 1..3 : rowGet(fout.rows[n], "Timestamp") = ""
    /\ \E n \in 1..3 : rowGet(fout.rows[n], "Transaction ID") = "T4"
    /\ \E n \in 1..3 : rowGet(fout.rows[n], "Merchant") = "Shop \"A\""

-----------------------------------------------------------------------------
(* The record of one row for every outcome of the calls of Math.random()   *)
(* in generateFraudIndicators, script.js:78-102 and 405-415                *)

\* Math.random() returns k/DrawDen, each call on its own
DrawDen == 8

IndicatorInputs ==
    { [riskScore |-> 70, draws |-> draws] : draws \in [1..5 -> 0..(DrawDen - 1)] }
    \cup { [riskScore |-> riskScore, draws |-> drawsFor(0)] :
             riskScore \in {0, 49, 50, 69, 100} }

InitIndicators ==
    /\ AppInit
    /\ tz = 0
    /\ fop = "none"
    /\ fin \in IndicatorInputs
    /\ fout = <<>>

ApplyIndicators ==
    /\ fop = "none"
    /\ fop' = "indicators"
    /\ fout' = sameScore(parseCSV(TwoRowsText)[1], fin.riskScore, fin.draws, DrawDen)
    /\ UNCHANGED <<fin, tz, appVars, viewVars>>

NextIndicators == ApplyIndicators

SpecIndicators == InitIndicators /\ [][NextIndicators]_vars

\* C23: the indicators of a record are none unless its status is 'fraud',
\* and for 'fraud' they are 2, 3 or 4 strings of the catalog of 8, no two
\* the same, whatever the random choices
C23_Indicators ==
    fop = "indicators" =>
       /\ Len(indicatorCatalog) = 8
       /\ fout.status # "fraud" => fout.indicators = <<>>
       /\ fout.status = "fraud" =>
             /\ Len(fout.indicators) \in {2, 3, 4}
             /\ \A i \in 1..Len(fout.indicators) :
                   \E c \in 1..Len(indicatorCatalog) :
                       fout.indicators[i] = indicatorCatalog[c]
             /\ \A i, j \in 1..Len(fout.indicators) :
                   i # j => fout.indicators[i] # fout.indicators[j]

\* four indicators, drawn with the same random number each time, the last
\* of the catalog among them
C23_Witness ==
    /\ fop = "indicators"
    /\ fout.status = "fraud"
    /\ Len(fout.indicators) = 4
    /\ fin.draws[2] = fin.draws[3] /\ fin.draws[3] = fin.draws[4]
    /\ fout.indicators[1] = indicatorCatalog[8]

-----------------------------------------------------------------------------
(* Rejections on the upload page *)

\* C24: selecting a file whose name does not end in '.csv' shows a message
\* and leaves uploadedFile, csvData, analysisResults, the analyze button and
\* the persisted entries as they were, also when a valid file was selected
\* before.
C24_NonCsvRejected ==
    [][\A f \in Files :
          (handleFileSelection(f) /\ ~endsWith(f.name, ".csv")) =>
             /\ lastAlert' = "Please upload a CSV file"
             /\ UNCHANGED <<uploadedFile, csvData, analysisResults,
                            analyzeBtnDisabled, localStorage, darkMode>>]_vars

\* a file that is no CSV was rejected while a valid file is selected, rows
\* are parsed and a run has stored its results
C24_Witness ==
    /\ lastAlert = "Please upload a CSV file"
    /\ uploadedFile.present
    /\ ~analyzeBtnDisabled
    /\ csvData # <<>>
    /\ localStorage.results.present

\* C25: triggering the analysis while no file is selected, at the start or
\* after clearFile, shows a message and starts no run; analysisResults,
\* csvData and the persisted entries stay as they were.
C25_NoFileRejected ==
    [][(analyzeTransactions /\ ~uploadedFile.present) =>
          /\ lastAlert' = "Please upload a CSV file first"
          /\ UNCHANGED <<runs, started, cardHidden, analysisResults, csvData,
                         localStorage, darkMode>>]_vars

\* rejected after clearFile: no file is selected, yet a run of the file
\* selected before is under way
C25_Witness ==
    /\ lastAlert = "Please upload a CSV file first"
    /\ ~uploadedFile.present
    /\ \E r \in DOMAIN runs : runs[r].pc = "awaiting"

\* rejected at the start
C25_WitnessInitially ==
    /\ lastAlert = "Please upload a CSV file first"
    /\ runs = <<>>
    /\ ~localStorage.results.present

-----------------------------------------------------------------------------
(* Dark mode over page loads and toggles, script.js:864-992 *)

\* what the key darkMode may hold when the first page is opened
DarkModeEntries == { Absent, Stored("enabled"), Stored("disabled"), Stored("true") }

InitDark ==
    /\ page = "upload"
    /\ uploadedFile = NoFile
    /\ csvData = <<>>
    /\ analysisResults = <<>>
    /\ analyzeBtnDisabled = TRUE
    /\ cardHidden = FALSE
    /\ progress = NoProgress
    /\ runs = <<>>
    /\ localStorage \in StoredStates
    /\ pendingNav = "none"
    /\ lastAlert = ""
    /\ clock = 0
    /\ started = 0
    /\ PageInit
    /\ darkMode \in DarkModeEntries
    /\ theme = loadedTheme(darkMode)
    /\ tz \in Zones
    /\ PureInit

NextDark ==
    \/ \E p \in {"upload", "results"} : userOpens(p)
    \/ navigate
    \/ toggleDarkMode

SpecDark == InitDark /\ [][NextDark]_vars

\* C26: the body has the dark-mode class exactly when the stored flag is
\* 'enabled' (no flag counts as not enabled); a toggle flips the class and
\* the flag, and a page load applies dark mode exactly when the stored flag
\* is 'enabled'.
C26_DarkMode ==
    /\ [](theme.body <=> (darkMode.present /\ darkMode.value = "enabled"))
    /\ [][toggleDarkMode =>
             /\ theme'.body = ~theme.body
             /\ darkMode'.present
             /\ darkMode'.value = (IF theme.body THEN "disabled" ELSE "enabled")
             /\ (darkMode'.value = "enabled")
                   # (darkMode.present /\ darkMode.value = "enabled")]_vars
    /\ [][\A p \in {"upload", "results"} :
             pageLoad(p) =>
                /\ UNCHANGED darkMode
                /\ theme'.body = (darkMode.present /\ darkMode.value = "enabled")]_vars

\* a page that was loaded in dark mode (the class of <html> is set by the
\* load only) and toggled to light since
C26_Witness ==
    /\ page = "results"
    /\ theme.html
    /\ ~theme.body
    /\ darkMode = Stored("disabled")
    /\ theme.icon = "bi bi-moon-stars-fill"

\* dark mode applied by a page load
C26_WitnessLoaded ==
    /\ page = "results"
    /\ darkMode = Stored("enabled")
    /\ theme.body /\ theme.html
    /\ lastAlert = ""
    /\ dom.tableRows # <<>>

-----------------------------------------------------------------------------
(* Runs that overlap *)

\* C27: also when analyzeTransactions is triggered again during a run, a run
\* that completes stores one record for every row of its own input, in the
\* order of the input, and nothing else.
C27_RunsIsolated ==
    [][\A r \in DOMAIN runs :
          (/\ runs[r].pc # "done"
           /\ r \in DOMAIN runs'
           /\ runs'[r].pc = "done")
          => /\ localStorage'.results.present
             /\ localStorage'.results.value
                   \in PrefixTexts(runs'[r].transactions, Len(runs'[r].transactions))]_vars

-----------------------------------------------------------------------------
(* One run over a file of 1 to MaxRows rows, from the moment its file is   *)
(* being read: script.js:353-426                                            *)

\* the longest file of a single run
MaxRows == 5

InitProgress ==
    /\ page = "upload"
    /\ uploadedFile \in { rowsFile(n) : n \in 1..MaxRows }
    /\ csvData = <<>>
    /\ analysisResults = <<>>
    /\ analyzeBtnDisabled = FALSE
    /\ cardHidden = TRUE
    /\ progress = NoProgress
    /\ runs = << [pc |-> "reading", file |-> uploadedFile, transactions |-> <<>>,
                  i |-> 0] >>
    /\ localStorage = [results |-> Absent, timestamp |-> Absent]
    /\ pendingNav = "none"
    /\ lastAlert = ""
    /\ clock = 0
    /\ started = MaxRuns
    /\ ViewInit
    /\ tz \in Zones
    /\ PureInit

NextProgress ==
    \/ \E r \in DOMAIN runs : readerOnload(r)
    \/ \E r \in DOMAIN runs : loopStep(r)
    \/ clearFile
    \/ \E f \in Files : handleFileSelection(f)
    \/ navigate

SpecProgress == InitProgress /\ [][NextProgress]_vars

\* the fraction a/b of one display is below that of another
Below(a, b) == a.num * b.den < b.num * a.den

\* C28: in a run over n >= 1 rows every row brings a progress update; when
\* the pipeline yields, the count shown is the number of records accumulated
\* so far and the fraction shown is that count over n; the fraction grows
\* with every update and is 100% exactly when the last row is processed.
C28_Progress ==
    /\ [](\A r \in DOMAIN runs :
             runs[r].pc \in {"awaiting", "done"} =>
                /\ progress.processed = numToString(Len(analysisResults))
                /\ progress.total = numToString(Len(runs[r].transactions))
                /\ progress.width.num * Len(runs[r].transactions)
                      = 100 * Len(analysisResults) * progress.width.den
                /\ (progress.width.num = 100 * progress.width.den)
                      <=> (Len(analysisResults) = Len(runs[r].transactions)))
    /\ [][/\ Len(analysisResults') > Len(analysisResults) =>
                /\ progress' # progress
                /\ Below(progress.width, progress'.width)
          /\ (progress' # progress /\ runs' # <<>>) =>
                /\ Len(analysisResults') = Len(analysisResults) + 1
                /\ Below(progress.width, progress'.width)]_vars

\* three of five rows done: 3, 60% and the third stage are shown
C28_Witness ==
    /\ \E r \in DOMAIN runs :
          runs[r].pc = "awaiting" /\ runs[r].i = 3 /\ Len(runs[r].transactions) = 5
    /\ progress.processed = "3"
    /\ progress.total = "5"
    /\ progress.width = [num |-> 300, den |-> 5]
    /\ progress.label = "60%"
    /\ progress.stage = "Analyzing transaction patterns..."

-----------------------------------------------------------------------------
(* The upload page while its timers and file reads are served: every file  *)
(* read ends (script.js:353), every timer of line 418 and the one of line  *)
(* 423 fires.  The user stays on the page.                                 *)

NextRuns ==
    \/ \E f \in Files : handleFileSelection(f)
    \/ clearFile
    \/ analyzeTransactions
    \/ \E r \in DOMAIN runs : readerOnload(r)
    \/ \E r \in DOMAIN runs : loopStep(r)
    \/ navigate

\* run r waits for its file or for its timer: readerOnload(r) or loopStep(r)
\* is enabled
Waiting(r) ==
    page = "upload" /\ r \in DOMAIN runs /\ runs[r].pc \in {"reading", "awaiting"}

\* a step of readerOnload(r) or loopStep(r)
Moved(r) == r \in DOMAIN runs /\ r \in DOMAIN runs' /\ runs'[r] # runs[r]

\* a step of navigate
Left == pendingNav # "none" /\ page' = pendingNav /\ runs' = <<>>

\* Weak fairness of every run's events and of the navigation, with the
\* guards written out in place of ENABLED: what is enabled for ever happens.
TimersFire ==
    /\ \A r \in 1..MaxRuns : ([]<>(~Waiting(r)) \/ []<><<Moved(r)>>_vars)
    /\ ([]<>(pendingNav = "none") \/ []<><<Left>>_vars)

SpecRuns == InitApp /\ [][NextRuns]_vars /\ TimersFire

\* the run with this number has parsed its file and is in its loop
Running(r) == r \in DOMAIN runs /\ runs[r].pc = "awaiting"

\* it has stored its Result Set and asked for the results page
Complete(r) == r \in DOMAIN runs /\ runs[r].pc = "done"

\* C29: every run that has started reaches Complete: from step to step it
\* stays in its loop over the same rows or becomes Complete, whatever else
\* happens on the page, clearFile and the selection of a file included.
C29_RunsComplete ==
    [][\A r \in 1..MaxRuns :
          Running(r) =>
             /\ Running(r)' \/ Complete(r)'
             /\ runs'[r].transactions = runs[r].transactions]_vars

\* the same as a property of whole behaviours, under TimersFire
C29_Eventually == \A r \in 1..MaxRuns : Running(r) ~> Complete(r)

\* the part of C29 about the user's actions on its own: they change no run
C29_NotCancelled ==
    [][(clearFile \/ \E f \in Files : handleFileSelection(f)) => runs' = runs]_vars

====
